---- MODULE Spec2Model ----
(***************************************************************************)
(* ChatMallu web client: the group-chat orchestration, the per-character   *)
(* memory store, the single-character send and the event-stream decoder of *)
(* web-client/src/pages/Index.tsx, as state machines.                      *)
(*                                                                         *)
(* Text is a sequence of one-character tokens: letters, "qt" (any quote    *)
(* character), ":" , " " (blank) and "nl" (newline).                       *)
(***************************************************************************)
EXTENDS Integers, Sequences, FiniteSets, TLC

Null == "null"

\* ------------------------------------------------------------ bounds
MaxSends == 2          \* group sends in one run of Spec
MaxParSends == 2       \* group sends in one run of ParSpec
MaxParFailures == 2    \* requests that fail in one run of ParSpec
MaxSeqSends == 1       \* group sends in one run of SeqSpec
MaxSeqFailures == 1    \* requests that fail in one run of SeqSpec
MaxLines == 2          \* lines of a response body in StreamSpec
MaxChunk == 12         \* tokens one read may deliver
MaxSingleSends == 2    \* single-character sends in one run of SingleSpec
MaxSingleFailures == 1 \* requests that fail in one run of SingleSpec
MaxCrudSends == 1      \* single-character sends in one run of CrudSpec
MaxCrudGroupSends == 1 \* group sends in one run of CrudSpec
MaxWords == 6          \* words of a text a delay is computed for
MaxSuggestLines == 3   \* lines of a suggestion response
MaxTextLen == 5        \* characters of a text put through a sanitizer
MaxPasses == 2         \* times a sanitizer is applied to a text
MaxTimerSends == 2     \* sends of each kind in a run with suggestion timers
MaxClearSends == 2     \* group sends of a run in which histories are cleared
MaxDelaySends == 1     \* single-character sends of a run with texts of many words
MaxDecodeSends == 1    \* single-character sends of a run with malformed lines
MaxDanglingSends == 1  \* group sends of a run with a member that matches no character

\* ------------------------------------------------------------ program constants
RecentCount == 5       \* recentMessages.slice(-5)
iterations == 8            \* rounds of the sequential loop
MinWaitMs == 500
BaseWaitMs == 300
SingleMsPerWord == 120
SingleMinWaitMs == 600
SingleMaxWaitMs == 3000
MaxWaitMs == 5000
DefaultTemperature == 7     \* 0.7, in tenths
DefaultContextLength == 65536
DefaultMaxTokens == 2000
DefaultWaitTimePerWord == 200
DefaultApiContextSize == 12
DefaultMemorySize == 20    \* characterMemorySize on first run

\* ------------------------------------------------------------ text
Letters == {"a", "b", "h"}
QuoteChars == {"qt"}
WhiteSpace == {" ", "nl"}
WordChars == Letters \cup {" "}

Drop(s, k) == SubSeq(s, k + 1, Len(s))
Take(s, k) == SubSeq(s, 1, k)

\* length of the longest prefix (suffix) of s made of characters of S
LeadLen(s, S) ==
  CHOOSE k \in 0..Len(s) :
    /\ \A i \in 1..k : s[i] \in S
    /\ (k = Len(s) \/ s[k + 1] \notin S)

TrailLen(s, S) ==
  CHOOSE k \in 0..Len(s) :
    /\ \A i \in (Len(s) - k + 1)..Len(s) : s[i] \in S
    /\ (k = Len(s) \/ s[Len(s) - k] \notin S)

\* String.prototype.trim
Trim(s) ==
  LET t == Drop(s, LeadLen(s, WhiteSpace))
  IN Take(t, Len(t) - TrailLen(t, WhiteSpace))

\* s.replace(/^["'...]+|["'...]+$/g, ""): the leading run and the trailing run
StripQuotes(s) ==
  LET t == Drop(s, LeadLen(s, QuoteChars))
  IN Take(t, Len(t) - TrailLen(t, QuoteChars))

\* s.replace(/^\s*([A-Za-z][A-Za-z0-9_ -]{0,30})\s*:\s*/i, "")
\* (texts here are shorter than 31 characters, so {0,30} never cuts a word)
StripLeadingTag(s) ==
  LET r == Drop(s, LeadLen(s, WhiteSpace))
  IN IF r = <<>> \/ r[1] \notin Letters THEN s
     ELSE LET t  == Drop(r, 1)
              t2 == Drop(t, LeadLen(t, WordChars))
              t3 == Drop(t2, LeadLen(t2, WhiteSpace))
          IN IF t3 # <<>> /\ t3[1] = ":"
             THEN Drop(Drop(t3, 1), LeadLen(Drop(t3, 1), WhiteSpace))
             ELSE s

\* the last newline of r among positions lo..hi, 0 if there is none
LastNewline(r, lo, hi) ==
  LET P == {i \in lo..hi : r[i] = "nl"}
  IN IF P = {} THEN 0 ELSE CHOOSE i \in P : \A j \in P : j <= i

\* length of the prefix one repetition of
\*   \s*[A-Za-z][A-Za-z0-9_ -]{0,30}\s*:?\s*\n
\* consumes under greedy matching, 0 if it does not match at the start of s
LineEnd(s) ==
  LET k0 == LeadLen(s, WhiteSpace)
      r  == Drop(s, k0)
  IN IF r = <<>> \/ r[1] \notin Letters THEN 0
     ELSE LET a  == 1 + LeadLen(Drop(r, 1), WordChars)
              b  == a + LeadLen(Drop(r, a), WhiteSpace)
              hasColon == b < Len(r) /\ r[b + 1] = ":"
              v2 == IF hasColon THEN LeadLen(Drop(r, b + 1), WhiteSpace) ELSE 0
              e2 == IF hasColon THEN LastNewline(r, b + 2, b + 1 + v2) ELSE 0
              e1 == LastNewline(r, a + 1, b)
          IN IF e2 > 0 THEN k0 + e2 ELSE IF e1 > 0 THEN k0 + e1 ELSE 0

\* s.replace(/^(?:\s*[A-Za-z][A-Za-z0-9_ -]{0,30}\s*:?\s*\n){1,}/i, "")
RECURSIVE StripLeadingLines(_)
StripLeadingLines(s) ==
  IF LineEnd(s) = 0 THEN s ELSE StripLeadingLines(Drop(s, LineEnd(s)))

\* the orchestrator's name-agnostic sanitize
sanitize(text) ==
  IF text = <<>> THEN <<>>
  ELSE Trim(StripLeadingLines(StripLeadingTag(StripQuotes(text))))

\* (text || "").trim().split(/\s+/).filter(Boolean).length
wordCount(text) ==
  Cardinality({i \in 1..Len(text) :
                 text[i] \notin WhiteSpace /\ (i = 1 \/ text[i - 1] \in WhiteSpace)})

MathMax(a, b) == IF a >= b THEN a ELSE b
MathMin(a, b) == IF a <= b THEN a ELSE b

\* computeWaitMs, the delay helper for single chats
computeWaitMs(text) ==
  LET words == wordCount(text)
      ms == BaseWaitMs + words * SingleMsPerWord
  IN MathMax(SingleMinWaitMs, MathMin(SingleMaxWaitMs, ms))

\* the delay handleSendMessage awaits:
\*   words = content.split(/\s+/).filter(Boolean).length
\*   Math.min(3000, Math.max(600, words * 120))
thinkingDelay(content) ==
  LET words == wordCount(content)
  IN MathMin(SingleMaxWaitMs, MathMax(SingleMinWaitMs, words * SingleMsPerWord))

\* length of the prefix one repetition of \s*NAME\s*\n consumes, 0 if it does not
\* match at the start of s
NameLineEnd(s, name) ==
  LET k0 == LeadLen(s, WhiteSpace)
      r  == Drop(s, k0)
  IN IF Len(r) < Len(name) \/ Take(r, Len(name)) # name THEN 0
     ELSE LET a == Len(name)
              b == a + LeadLen(Drop(r, a), WhiteSpace)
              e == LastNewline(r, a + 1, b)
          IN IF e > 0 THEN k0 + e ELSE 0

\* s.replace(new RegExp(`^(?:\\s*${name}\\s*\n)+`, 'i'), "")
RECURSIVE StripNameLines(_, _)
StripNameLines(s, name) ==
  IF NameLineEnd(s, name) = 0 THEN s
  ELSE StripNameLines(Drop(s, NameLineEnd(s, name)), name)

\* what is left of r after the longest run of NAME\s*:\s* at its start
RECURSIVE DropNameTags(_, _)
DropNameTags(r, name) ==
  IF Len(r) < Len(name) \/ Take(r, Len(name)) # name THEN r
  ELSE LET t == Drop(r, Len(name))
           u == Drop(t, LeadLen(t, WhiteSpace))
       IN IF u # <<>> /\ u[1] = ":"
          THEN DropNameTags(Drop(Drop(u, 1), LeadLen(Drop(u, 1), WhiteSpace)), name)
          ELSE r

\* s.replace(new RegExp(`^\\s*(?:${name}\\s*:\\s*)+`, 'i'), "")
StripNameTags(s, name) ==
  LET r == Drop(s, LeadLen(s, WhiteSpace))
      d == DropNameTags(r, name)
  IN IF d = r THEN s ELSE d

\* s.replace(/^(\s*\n)+/, "")
StripEmptyLines(s) == Drop(s, LastNewline(s, 1, LeadLen(s, WhiteSpace)))

\* the display sanitizer of the group chat
sanitizeGroupContent(text, speakerName) ==
  IF text = <<>> THEN <<>>
  ELSE LET q == StripQuotes(text)
           n == IF Trim(speakerName) # <<>>
                THEN StripNameTags(StripNameLines(q, speakerName), speakerName)
                ELSE q
       IN Trim(StripEmptyLines(n))

\* the texts and speaker names the sanitizers are applied to
SanitizeAlphabet == {"a", "h", ":", " ", "nl", "qt"}
SanitizeTexts == UNION {[1..k -> SanitizeAlphabet] : k \in 0..MaxTextLen}
SpeakerNames == {<<>>, <<"a">>}

\* ------------------------------------------------------------ state
Chars == {"A", "B"}                       \* character ids
Groups == {"g1", "g2"}                    \* group ids
CharName == [A |-> <<"a">>, B |-> <<"b">>]
InitMembers == [g1 |-> <<"A", "B">>, g2 |-> <<"B">>]
UserTexts == {<<"h">>}                    \* what the user types
ReplyTexts == {<<"qt", "h", ":", " ", "a", "qt">>}   \* raw text a stream yields
\* a raw text with two leading tags
TaggedTexts == {<<"a", ":", "b", ":", "a">>}
Outcomes == {"ok", "reject", "notOk", "noBody"}
\* how a parallel task ended: with its reply appended, by a return, or by a throw
Settled == {"replied", "returned", "rejected"}
MemorySizes == {1, 2}                     \* configured characterMemorySize values

\* sanitize, tabulated once over the texts of this model (the user's, the streams'
\* and their sanitized forms); the actions look it up
TextInputs == UserTexts \cup ReplyTexts \cup TaggedTexts
SanitizeTable ==
  [t \in TextInputs \cup {sanitize(u) : u \in TextInputs} |-> sanitize(t)]
sanitized(text) == SanitizeTable[text]

VARIABLES
  characters,          \* id -> [name, lastMessage], the existing characters
  groups,              \* id -> [memberIds, autoReply, autoParallel]
  selectedGroupId,
  groupMessages,       \* group id -> sequence of GroupMessage
  characterMemories,   \* group id -> character id -> sequence of {role, content}
  characterMemorySize,
  typingForId,
  groupLoopAbortRef,   \* group id -> the loop whose controller the slot holds, 0 for none
  loops,               \* one record per handleSendGroupMessage call that got past the prelude
  nSends,              \* group id -> handleSendGroupMessage calls for it so far
  failures,            \* requests that failed so far
  selectedCharacterId,
  messages,            \* character id -> sequence of Message (1:1 transcript)
  unread,              \* character id -> unread counter, 0 for none
  sends,               \* one record per handleSendMessage call
  body,                \* the response body a stream decoder is given
  rest,                \* the part of body not read yet
  full,                \* the text the decoder has accumulated
  streamDone,          \* the reader has signalled completion
  settings,            \* the scalar settings other than characterMemorySize
  storage,             \* localStorage: the slots of the scalar settings
  delayMs,             \* <<the delay computeWaitMsGroup returned last>>, <<>> for none
  suggestedResponses,  \* chat id -> the suggestions stored
  showSuggestions,     \* chat id -> the suggestions are shown
  generated,           \* <<the chat and text of the suggestion response handled last>>
  cleaning,            \* a text put through a sanitizer: which sanitizer, the speaker
                       \* name it is given, the text and the result of each pass
  unreadGroups,        \* group id -> unread counter of the group
  suggestionRequests   \* the suggestion requests issued: chat and recent messages

groupVars == <<characters, groups, selectedGroupId, groupMessages, characterMemories,
               characterMemorySize, typingForId, groupLoopAbortRef, loops, nSends,
               failures>>
singleVars == <<selectedCharacterId, messages, unread, sends>>
streamVars == <<body, rest, full, streamDone>>
settingsVars == <<settings, storage, delayMs>>
suggestVars == <<suggestedResponses, showSuggestions, generated>>

\* ------------------------------------------------------------ memory store
\* Array.prototype.slice(-n); slice(-0) is slice(0), the whole array
\* faulty variant: the first n entries are kept instead of the last n
SliceFirst(s, n) == IF n = 0 \/ Len(s) <= n THEN s ELSE SubSeq(s, 1, n)

SliceLast(s, n) ==
  IF n = 0 \/ Len(s) <= n THEN s ELSE SubSeq(s, Len(s) - n + 1, Len(s))

getCharacterMemory(mem, groupId, characterId) == mem[groupId][characterId]

\* faulty variant: the update is computed from the (empty) list the handler captured instead
\* of the latest state
updateCharacterMemoryStale(mem, groupId, characterId, newMessage) ==
  [mem EXCEPT ![groupId][characterId] = <<newMessage>>]

updateCharacterMemory(mem, groupId, characterId, newMessage) ==
  [mem EXCEPT ![groupId][characterId] =
     Append(SliceLast(@, characterMemorySize), newMessage)]

\* faulty variant: the memories of every group are dropped
clearCharacterMemoriesOfAll(mem, groupId) ==
  [g \in Groups |-> [c \in Chars |-> <<>>]]

clearCharacterMemories(mem, groupId) ==
  [mem EXCEPT ![groupId] = [c \in Chars |-> <<>>]]

\* group.memberIds.forEach(id => { if (id !== skip) updateCharacterMemory(chatId, id, entry) })
RECURSIVE forEachMember(_, _, _, _, _)
forEachMember(mem, groupId, ids, skip, entry) ==
  IF ids = <<>> THEN mem
  ELSE forEachMember(IF Head(ids) # skip
                     THEN updateCharacterMemory(mem, groupId, Head(ids), entry)
                     ELSE mem,
                     groupId, Tail(ids), skip, entry)

\* the ids a forEach over memberIds writes to
Others(ids, skip) == {i \in 1..Len(ids) : ids[i] # skip}

\* faulty variant: the speaker is not left out of the "user" entries
replyMemoriesEchoSelf(mem, l, responderId, text) ==
  forEachMember(
    updateCharacterMemory(mem, l.chatId, responderId,
                          [role |-> "assistant", content |-> text]),
    l.chatId, l.memberIds, Null,
    [role |-> "user", content |-> CharName[responderId] \o <<":", " ">> \o text])

\* the memory writes of one reply: the speaker's own entry, then everybody else's
replyMemories(mem, l, responderId, text) ==
  forEachMember(
    updateCharacterMemory(mem, l.chatId, responderId,
                          [role |-> "assistant", content |-> text]),
    l.chatId, l.memberIds, responderId,
    [role |-> "user", content |-> CharName[responderId] \o <<":", " ">> \o text])

\* ------------------------------------------------------------ group orchestration
\* A loop record is the closure of one handleSendGroupMessage call: chatId, the group
\* (memberIds, parallel) and the characters it captured, its AbortController
\* (aborted), where each of its awaits stands, and counters of what it has done.
\* r and the task index are 1-based, iter is 0-based as in the code.

Min(S) == CHOOSE x \in S : \A y \in S : x <= y

\* faulty variant: a member is taken to exist without being looked up
HasResponderUnchecked(l, i) == TRUE

\* characters.find((c) => c.id === responderId)
HasResponder(l, i) == l.memberIds[i] \in l.chars

\* faulty variant: one round too many
NextTurnOffByOne(l, iter, r) ==
  LET n     == Len(l.memberIds)
      later == {i \in r..n : HasResponder(l, i)}
      any   == {i \in 1..n : HasResponder(l, i)}
  IN IF later # {} THEN [some |-> TRUE, iter |-> iter, r |-> Min(later)]
     ELSE IF any # {} /\ iter + 1 <= iterations
          THEN [some |-> TRUE, iter |-> iter + 1, r |-> Min(any)]
          ELSE [some |-> FALSE, iter |-> iter, r |-> r]

\* the first turn at or after (iter, r) that reaches its sleep: turns whose member
\* matches no character are passed over by "continue" (some = FALSE: the loop ends)
NextTurn(l, iter, r) ==
  LET n     == Len(l.memberIds)
      later == {i \in r..n : HasResponder(l, i)}
      any   == {i \in 1..n : HasResponder(l, i)}
  IN IF later # {} THEN [some |-> TRUE, iter |-> iter, r |-> Min(later)]
     ELSE IF any # {} /\ iter + 1 < iterations
          THEN [some |-> TRUE, iter |-> iter + 1, r |-> Min(any)]
          ELSE [some |-> FALSE, iter |-> iter, r |-> r]

TotalSends == nSends["g1"] + nSends["g2"]

\* faulty variant: the previous loop's controller is not aborted
AbortPreviousSkipped(ls, ref, chatId) == ls

\* groupLoopAbortRef.current[chatId]?.abort()
AbortPrevious(ls, ref, chatId) ==
  IF ref[chatId] # 0 THEN [ls EXCEPT ![ref[chatId]].aborted = TRUE] ELSE ls

\* setTimeout(() => generateSuggestedResponses(chatId, groupMessages[chatId] || []), 1000)
\* after the tasks of a parallel send have settled or the sequential loop has ended
setTimeout(ls, L) == [ls EXCEPT ![L].timer = "pending"]

\* faulty variant: the finally block leaves a cancelled loop's slot to its successor
\* by clearing it only when it holds another loop's controller
FinallySwapped(ls, L, ref) ==
  /\ loops' = [ls EXCEPT ![L].done = TRUE, ![L].phase = "-"]
  /\ typingForId' = Null
  /\ groupLoopAbortRef' =
       [ref EXCEPT ![ls[L].chatId] = IF @ # L THEN 0 ELSE @]

\* faulty variant: the finally block clears the slot whichever controller it holds
FinallyAlwaysClears(ls, L, ref) ==
  /\ loops' = [ls EXCEPT ![L].done = TRUE, ![L].phase = "-"]
  /\ typingForId' = Null
  /\ groupLoopAbortRef' = [ref EXCEPT ![ls[L].chatId] = 0]

\* the finally block: the typing indicator is cleared, and the slot too when it
\* still holds this loop's controller
Finally(ls, L, ref) ==
  /\ loops' = [ls EXCEPT ![L].done = TRUE, ![L].phase = "-"]
  /\ typingForId' = Null
  /\ groupLoopAbortRef' =
       [ref EXCEPT ![ls[L].chatId] = IF @ = L THEN 0 ELSE @]

\* faulty variant: Promise.all instead of Promise.allSettled, the first rejection ends the wait
ParallelJoinAll(ls, L, ref) ==
  IF ~ls[L].done /\ (\/ \A i \in 1..Len(ls[L].task) : ls[L].task[i] \in Settled
                     \/ \E i \in 1..Len(ls[L].task) : ls[L].task[i] = "rejected")
  THEN Finally(setTimeout(ls, L), L, ref)
  ELSE /\ loops' = ls
       /\ groupLoopAbortRef' = ref
       /\ UNCHANGED typingForId

\* await Promise.allSettled(tasks), then the finally block
ParallelJoin(ls, L, ref) ==
  IF ~ls[L].done /\ \A i \in 1..Len(ls[L].task) : ls[L].task[i] \in Settled
  THEN Finally(setTimeout(ls, L), L, ref)
  ELSE /\ loops' = ls
       /\ groupLoopAbortRef' = ref
       /\ UNCHANGED typingForId

\* the sequential loop moves on to the turn after (iter, r), or ends
SeqContinue(ls, L, iter, r) ==
  LET nt == NextTurn(ls[L], iter, r)
  IN IF ~nt.some THEN Finally(setTimeout(ls, L), L, groupLoopAbortRef)
     ELSE /\ loops' = [ls EXCEPT ![L].iter = nt.iter, ![L].r = nt.r, ![L].phase = "sleep"]
          /\ UNCHANGED <<typingForId, groupLoopAbortRef>>

\* if (selectedGroupId !== chatId) setUnreadGroups(..): selectedGroupId is the
\* value the handler captured
bumpUnreadGroups(l) ==
  IF l.selectedGroupId # l.chatId
  THEN [unreadGroups EXCEPT ![l.chatId] = @ + 1] ELSE unreadGroups

\* appending a member's reply: the GroupMessage and the memory writes
AppendReply(l, L, responderId, k, text) ==
  /\ groupMessages' =
       [groupMessages EXCEPT ![l.chatId] =
          Append(@, [id |-> <<L, k>>, content |-> sanitized(text), senderId |-> responderId])]
  /\ characterMemories' = replyMemories(characterMemories, l, responderId, sanitized(text))

Replied(l, responderId) ==
  [l EXCEPT !.nMsgs = @ + 1,
            !.nMem = @ + 1 + Cardinality(Others(l.memberIds, responderId))]

\* faulty variant: only a group without members gets no replies
NoAutoReplyMembersOnly(group) == Len(group.memberIds) = 0

\* !group.autoReply || group.memberIds.length === 0
NoAutoReply(group) == ~group.autoReply \/ Len(group.memberIds) = 0

\* characterMemory.slice(-apiContextSize) of getCharacterMemory(chatId, responderId):
\* the conversation_history of a request of loop l for a member. getCharacterMemory
\* reads the characterMemories of the render the handler was created in.
conversationHistory(l, responderId) ==
  SliceLast(getCharacterMemory(l.characterMemories, l.chatId, responderId),
            settings["apiContextSize"])

handleSendGroupMessage(content) ==
  /\ selectedGroupId # Null
  /\ selectedGroupId \in DOMAIN groups
  /\ LET chatId == selectedGroupId
         group  == groups[chatId]
         L      == Len(loops) + 1
         n      == Len(group.memberIds)
         userMsg == [id |-> <<0, TotalSends + 1>>, content |-> content, senderId |-> "user"]
         l0 == [chatId |-> chatId, sendNo |-> nSends[chatId] + 1, memberIds |-> group.memberIds,
                parallel |-> group.autoParallel, chars |-> DOMAIN characters,
                content |-> content, aborted |-> FALSE, done |-> FALSE,
                task |-> <<>>, iter |-> 0, r |-> 1, phase |-> "-",
                currentMessage |-> content, message |-> <<>>,
                characterMemories |-> characterMemories,
                selectedGroupId |-> selectedGroupId,
                groupMessages |-> groupMessages[chatId], timer |-> "-",
                nMsgs |-> 0, nMem |-> n, nReq |-> 0]
         aborted == AbortPrevious(loops, groupLoopAbortRef, chatId)
         ref == [groupLoopAbortRef EXCEPT ![chatId] = L]
     IN /\ nSends' = [nSends EXCEPT ![chatId] = @ + 1]
        /\ groupMessages' = [groupMessages EXCEPT ![chatId] = Append(@, userMsg)]
        /\ IF NoAutoReply(group)
           THEN UNCHANGED <<characterMemories, loops, typingForId, groupLoopAbortRef>>
           ELSE /\ characterMemories' =
                     forEachMember(characterMemories, chatId, group.memberIds, Null,
                                   [role |-> "user", content |-> sanitized(content)])
                /\ IF group.autoParallel
                   THEN LET l == [l0 EXCEPT !.task =
                                    [i \in 1..n |-> IF HasResponder(l0, i)
                                                    THEN "sleep" ELSE "returned"]]
                        IN IF \A i \in 1..n : l.task[i] \in Settled
                           THEN Finally(setTimeout(Append(aborted, l), L), L, ref)
                           ELSE /\ loops' = Append(aborted, l)
                                /\ typingForId' = chatId
                                /\ groupLoopAbortRef' = ref
                   ELSE LET nt == NextTurn(l0, 0, 1)
                        IN IF ~nt.some
                           THEN Finally(setTimeout(Append(aborted, l0), L), L, ref)
                           ELSE /\ loops' = Append(aborted,
                                       [l0 EXCEPT !.iter = nt.iter, !.r = nt.r,
                                                  !.phase = "sleep"])
                                /\ typingForId' = chatId
                                /\ groupLoopAbortRef' = ref
  /\ UNCHANGED <<characters, groups, selectedGroupId, characterMemorySize, failures>>
  /\ UNCHANGED <<singleVars, streamVars, settingsVars, suggestVars, cleaning, unreadGroups, suggestionRequests>>

\* parallel task i after its sleep: returns when aborted, else issues its request
ParallelWake(L, i) ==
  /\ L \in 1..Len(loops) /\ loops[L].parallel
  /\ i \in 1..Len(loops[L].task) /\ loops[L].task[i] = "sleep"
  /\ ParallelJoin(IF loops[L].aborted
                  THEN [loops EXCEPT ![L].task[i] = "returned"]
                  ELSE [loops EXCEPT ![L].task[i] = "fetch", ![L].nReq = @ + 1,
                                     ![L].message = sanitized(loops[L].content)],
                  L, groupLoopAbortRef)
  /\ UNCHANGED <<characters, groups, selectedGroupId, groupMessages, characterMemories,
                 characterMemorySize, nSends, failures>>
  /\ UNCHANGED <<singleVars, streamVars, settingsVars, suggestVars, cleaning, unreadGroups, suggestionRequests>>

\* the request of parallel task i completes. A rejected fetch (an aborted signal
\* rejects the fetch and every read of the body) rejects the task; a non-OK response
\* or a missing body returns; otherwise the read loop runs to the end of the body,
\* yielding the text, and the reply is appended. The awaits between the response and
\* the end of the body touch nothing but the task's own variables, so they are
\* one step here.
ParallelResponse(L, i, outcome, text) ==
  /\ L \in 1..Len(loops) /\ loops[L].parallel
  /\ i \in 1..Len(loops[L].task) /\ loops[L].task[i] = "fetch"
  /\ LET l == loops[L]
         responderId == l.memberIds[i]
         o == IF l.aborted THEN "reject" ELSE outcome
     IN /\ failures' = IF ~l.aborted /\ outcome # "ok" THEN failures + 1 ELSE failures
        /\ unreadGroups' = IF o = "ok" THEN bumpUnreadGroups(l) ELSE unreadGroups
        /\ CASE o = "ok" ->
                  /\ AppendReply(l, L, responderId, i - 1, text)
                  /\ ParallelJoin([loops EXCEPT ![L] =
                                     [Replied(l, responderId) EXCEPT !.task[i] = "replied"]],
                                  L, groupLoopAbortRef)
             [] o = "reject" ->
                  /\ ParallelJoin([loops EXCEPT ![L].task[i] = "rejected"],
                                  L, groupLoopAbortRef)
                  /\ UNCHANGED <<groupMessages, characterMemories>>
             [] OTHER ->
                  /\ ParallelJoin([loops EXCEPT ![L].task[i] = "returned"],
                                  L, groupLoopAbortRef)
                  /\ UNCHANGED <<groupMessages, characterMemories>>
  /\ UNCHANGED <<characters, groups, selectedGroupId, characterMemorySize, nSends>>
  /\ UNCHANGED <<singleVars, streamVars, settingsVars, suggestVars, cleaning, suggestionRequests>>

\* faulty variant: every turn responds to the message the first turn responded to
NextMessageKept(l, text) == l.currentMessage

\* currentMessage = sanitize(full): the next turn responds to this reply
NextMessage(l, text) == sanitized(text)

\* a sequential turn after its sleep: "break outer" when aborted, else the request
SeqWake(L) ==
  /\ L \in 1..Len(loops) /\ ~loops[L].parallel /\ loops[L].phase = "sleep"
  /\ IF loops[L].aborted
     THEN Finally(setTimeout(loops, L), L, groupLoopAbortRef)
     ELSE /\ loops' = [loops EXCEPT ![L].phase = "fetch", ![L].nReq = @ + 1,
                                    ![L].message = sanitized(loops[L].currentMessage)]
          /\ UNCHANGED <<typingForId, groupLoopAbortRef>>
  /\ UNCHANGED <<characters, groups, selectedGroupId, groupMessages, characterMemories,
                 characterMemorySize, nSends, failures>>
  /\ UNCHANGED <<singleVars, streamVars, settingsVars, suggestVars, cleaning, unreadGroups, suggestionRequests>>

\* the request of a sequential turn completes. A rejected fetch or read (an aborted
\* signal too) is caught at the end of the handler; a non-OK response or a missing
\* body "continue"s; otherwise the reply is appended and becomes the message of the
\* next turn.
SeqResponse(L, outcome, text) ==
  /\ L \in 1..Len(loops) /\ ~loops[L].parallel /\ loops[L].phase = "fetch"
  /\ LET l == loops[L]
         responderId == l.memberIds[l.r]
         k == l.iter * Len(l.memberIds) + (l.r - 1)
         o == IF l.aborted THEN "reject" ELSE outcome
     IN /\ failures' = IF ~l.aborted /\ outcome # "ok" THEN failures + 1 ELSE failures
        /\ unreadGroups' = IF o = "ok" THEN bumpUnreadGroups(l) ELSE unreadGroups
        /\ CASE o = "ok" ->
                  /\ AppendReply(l, L, responderId, k, text)
                  /\ SeqContinue([loops EXCEPT ![L] =
                                    [Replied(l, responderId) EXCEPT
                                       !.currentMessage = NextMessage(l, text)]],
                                 L, l.iter, l.r + 1)
             [] o = "reject" ->
                  /\ Finally(loops, L, groupLoopAbortRef)
                  /\ UNCHANGED <<groupMessages, characterMemories>>
             [] OTHER ->
                  /\ SeqContinue(loops, L, l.iter, l.r + 1)
                  /\ UNCHANGED <<groupMessages, characterMemories>>
  /\ UNCHANGED <<characters, groups, selectedGroupId, characterMemorySize, nSends>>
  /\ UNCHANGED <<singleVars, streamVars, settingsVars, suggestVars, cleaning, suggestionRequests>>

\* ------------------------------------------------------------ other handlers
handleUpdateGroup(id, field, value) ==
  groups' = [g \in DOMAIN groups |->
               IF g = id THEN [groups[g] EXCEPT ![field] = value] ELSE groups[g]]

handleToggleAutoReply(groupId) ==
  /\ groupId = selectedGroupId /\ groupId \in DOMAIN groups
  /\ handleUpdateGroup(groupId, "autoReply", ~groups[groupId].autoReply)
  /\ UNCHANGED <<characters, selectedGroupId, groupMessages, characterMemories,
                 characterMemorySize, typingForId, groupLoopAbortRef, loops, nSends,
                 failures>>
  /\ UNCHANGED <<singleVars, streamVars, settingsVars, suggestVars, cleaning, unreadGroups, suggestionRequests>>

handleToggleParallel(groupId) ==
  /\ groupId = selectedGroupId /\ groupId \in DOMAIN groups
  /\ handleUpdateGroup(groupId, "autoParallel", ~groups[groupId].autoParallel)
  /\ UNCHANGED <<characters, selectedGroupId, groupMessages, characterMemories,
                 characterMemorySize, typingForId, groupLoopAbortRef, loops, nSends,
                 failures>>
  /\ UNCHANGED <<singleVars, streamVars, settingsVars, suggestVars, cleaning, unreadGroups, suggestionRequests>>

onSelectGroup(id) ==
  /\ id \in DOMAIN groups /\ id # selectedGroupId
  /\ selectedGroupId' = id
  /\ selectedCharacterId' = Null
  /\ unreadGroups' = [unreadGroups EXCEPT ![id] = 0]
  /\ UNCHANGED <<characters, groups, groupMessages, characterMemories,
                 characterMemorySize, typingForId, groupLoopAbortRef, loops, nSends,
                 failures>>
  /\ UNCHANGED <<messages, unread, sends, streamVars, settingsVars, suggestVars, cleaning, suggestionRequests>>

handleDeleteCharacter(id) ==
  /\ id \in DOMAIN characters
  /\ characters' = [c \in DOMAIN characters \ {id} |-> characters[c]]
  /\ messages' = [messages EXCEPT ![id] = <<>>]
  /\ UNCHANGED <<groups, selectedGroupId, groupMessages, characterMemories,
                 characterMemorySize, typingForId, groupLoopAbortRef, loops, nSends,
                 failures>>
  /\ UNCHANGED <<selectedCharacterId, unread, sends, streamVars, settingsVars, suggestVars, cleaning, unreadGroups, suggestionRequests>>

\* the transcript, the memories and the suggestions of the group are dropped (the
\* lastMessage of a group is not part of this model)
handleClearGroupHistory(groupId) ==
  /\ groupId = selectedGroupId /\ groupId \in DOMAIN groups
  /\ groupMessages' = [groupMessages EXCEPT ![groupId] = <<>>]
  /\ characterMemories' = clearCharacterMemories(characterMemories, groupId)
  /\ suggestedResponses' = [c \in DOMAIN suggestedResponses |->
                              IF c = groupId THEN <<>> ELSE suggestedResponses[c]]
  /\ showSuggestions' = [c \in DOMAIN showSuggestions |->
                           IF c = groupId THEN FALSE ELSE showSuggestions[c]]
  /\ generated' = <<>>
  /\ UNCHANGED <<characters, groups, selectedGroupId, characterMemorySize, typingForId,
                 groupLoopAbortRef, loops, nSends, failures>>
  /\ UNCHANGED <<singleVars, streamVars, settingsVars, cleaning, unreadGroups,
                 suggestionRequests>>

\* ------------------------------------------------------------ stream decoder
\* A response body is a sequence of tokens: "D" is the prefix 'data: ', "{c" opens
\* a JSON object up to the opening quote of its content field, "c}" closes it, "{e}"
\* is a whole JSON object with an error field, "nl" is a newline, letters are the
\* characters of a content string. A read delivers any non-empty run of tokens.
ContentLine(t) == <<"D", "{c">> \o t \o <<"c}">>
ErrorLine == <<"D", "{e}">>
MalformedLine == <<"D", "{c", "b">>
StreamLines == {ContentLine(<<"a">>), ContentLine(<<"h">>), ErrorLine, MalformedLine}

RECURSIVE BodiesOf(_)
BodiesOf(n) ==
  IF n = 0 THEN {<<>>}
  ELSE LET shorter == BodiesOf(n - 1)
       IN shorter \cup {b \o l \o <<"nl">> : b \in shorter, l \in StreamLines}

Bodies == BodiesOf(MaxLines) \ {<<>>}
\* bodies of three lines: a content line, a line that parses or not, a content line;
\* and a body whose only line does not parse
DecodeBodies ==
  {ContentLine(<<"a">>) \o <<"nl">> \o l \o <<"nl">> \o ContentLine(<<"h">>) \o <<"nl">> :
     l \in {MalformedLine, ContentLine(<<"b">>)}}
    \cup {MalformedLine \o <<"nl">>}
SingleBodies == {ContentLine(<<"a">>) \o <<"nl">>,
                 ContentLine(<<"a">>) \o <<"nl">> \o ErrorLine \o <<"nl">>}

\* chunk.split("\n")
RECURSIVE split(_)
split(chunk) ==
  IF \A i \in 1..Len(chunk) : chunk[i] # "nl" THEN <<chunk>>
  ELSE LET i == CHOOSE j \in 1..Len(chunk) :
                  chunk[j] = "nl" /\ \A k \in 1..(j - 1) : chunk[k] # "nl"
       IN <<Take(chunk, i - 1)>> \o split(Drop(chunk, i))

\* JSON.parse of the text after the prefix: the object parsed, or a throw
JSONparse(t) ==
  IF t = <<"{e}">> THEN [threw |-> FALSE, error |-> TRUE, content |-> <<>>]
  ELSE IF /\ Len(t) >= 2 /\ t[1] = "{c" /\ t[Len(t)] = "c}"
          /\ \A i \in 2..(Len(t) - 1) : t[i] \in Letters
       THEN [threw |-> FALSE, error |-> FALSE, content |-> SubSeq(t, 2, Len(t) - 1)]
       ELSE [threw |-> TRUE, error |-> FALSE, content |-> <<>>]

\* faulty variant: a line that does not parse discards what was accumulated
decodeLineDropping(acc, line) ==
  IF Len(line) >= 1 /\ line[1] = "D"
  THEN LET data == JSONparse(Drop(line, 1))
       IN IF data.threw THEN <<>>
          ELSE IF data.error THEN acc
          ELSE acc \o data.content
  ELSE acc

\* the body of the loop over the lines of a chunk. The throw for an error field sits
\* inside the try whose catch ignores every exception, as the throw of JSON.parse
\* does: neither leaves the loop, and the line contributes nothing.
decodeLine(acc, line) ==
  IF Len(line) >= 1 /\ line[1] = "D"
  THEN LET data == JSONparse(Drop(line, 1))
       IN IF data.threw THEN acc
          ELSE IF data.error THEN acc
          ELSE acc \o data.content
  ELSE acc

RECURSIVE decodeLines(_, _)
decodeLines(acc, lines) ==
  IF lines = <<>> THEN acc
  ELSE decodeLines(decodeLine(acc, Head(lines)), Tail(lines))

\* one pass of the read loop over a chunk
decodeChunk(acc, chunk) == decodeLines(acc, split(chunk))

\* reader.read() delivers the next k tokens of the body
ReadChunk(k) ==
  /\ ~streamDone /\ k \in 1..Len(rest)
  /\ full' = decodeChunk(full, Take(rest, k))
  /\ rest' = Drop(rest, k)
  /\ UNCHANGED <<body, streamDone>>
  /\ UNCHANGED <<groupVars, singleVars, settingsVars, suggestVars, cleaning, unreadGroups, suggestionRequests>>

\* reader.read() signals completion
ReadDone ==
  /\ ~streamDone /\ rest = <<>>
  /\ streamDone' = TRUE
  /\ UNCHANGED <<body, rest, full>>
  /\ UNCHANGED <<groupVars, singleVars, settingsVars, suggestVars, cleaning, unreadGroups, suggestionRequests>>

\* ------------------------------------------------------------ single-character send
onSelectCharacter(id) ==
  /\ id \in DOMAIN characters /\ id # selectedCharacterId
  /\ selectedCharacterId' = id
  /\ selectedGroupId' = Null
  /\ unread' = [unread EXCEPT ![id] = 0]
  /\ UNCHANGED <<characters, groups, groupMessages, characterMemories,
                 characterMemorySize, typingForId, groupLoopAbortRef, loops, nSends,
                 failures>>
  /\ UNCHANGED <<messages, sends, streamVars, settingsVars, suggestVars, cleaning, unreadGroups, suggestionRequests>>

\* faulty variant: the update is dropped
handleUpdateCharacterDropped(id, field, value) == UNCHANGED characters

handleUpdateCharacter(id, field, value) ==
  characters' = [c \in DOMAIN characters |->
                   IF c = id THEN [characters[c] EXCEPT ![field] = value]
                   ELSE characters[c]]

\* the catch and finally of handleSendMessage as they would be if a failure committed
\* what had been accumulated
SendFailedCommitsPartial(S) ==
  /\ sends' = [sends EXCEPT ![S].phase = "failed"]
  /\ typingForId' = Null
  /\ messages' = [messages EXCEPT ![sends[S].chatId] =
                    Append(@, [id |-> <<S, "a">>, role |-> "assistant",
                               content |-> sends[S].full])]
  /\ UNCHANGED <<characters, unread>>

\* the catch and finally of handleSendMessage: the error is logged, the typing
\* indicator cleared
SendFailed(S) ==
  /\ sends' = [sends EXCEPT ![S].phase = "failed"]
  /\ typingForId' = Null
  /\ UNCHANGED <<messages, characters, unread>>

\* the user message is appended and the thinking delay begins
handleSendMessage(content) ==
  /\ selectedCharacterId # Null
  /\ selectedCharacterId \in DOMAIN characters
  /\ LET chatId == selectedCharacterId
         S == Len(sends) + 1
     IN /\ messages' = [messages EXCEPT ![chatId] =
                          Append(@, [id |-> <<S, "u">>, role |-> "user",
                                     content |-> content])]
        /\ sends' = Append(sends, [chatId |-> chatId, content |-> content,
                                   phase |-> "sleep", rest |-> <<>>, full |-> <<>>,
                                   nReq |-> 0, sawError |-> FALSE, body |-> <<>>,
                                   messages |-> messages[chatId], timer |-> "-",
                                   delay |-> thinkingDelay(content)])
  /\ UNCHANGED <<characters, groups, selectedGroupId, groupMessages, characterMemories,
                 characterMemorySize, typingForId, groupLoopAbortRef, loops, nSends,
                 failures>>
  /\ UNCHANGED <<selectedCharacterId, unread, streamVars, settingsVars, suggestVars, cleaning, unreadGroups, suggestionRequests>>

\* after the delay: the typing indicator is set and the request issued
SingleWake(S) ==
  /\ S \in 1..Len(sends) /\ sends[S].phase = "sleep"
  /\ typingForId' = sends[S].chatId
  /\ sends' = [sends EXCEPT ![S].phase = "fetch", ![S].nReq = @ + 1]
  /\ UNCHANGED <<characters, groups, selectedGroupId, groupMessages, characterMemories,
                 characterMemorySize, groupLoopAbortRef, loops, nSends, failures>>
  /\ UNCHANGED <<selectedCharacterId, messages, unread, streamVars, settingsVars, suggestVars, cleaning, unreadGroups, suggestionRequests>>

\* the request completes: a rejected fetch, a non-OK response and a missing body
\* throw; otherwise the read loop starts on the response body b
SingleResponse(S, outcome, b) ==
  /\ S \in 1..Len(sends) /\ sends[S].phase = "fetch"
  /\ IF outcome = "ok"
     THEN /\ sends' = [sends EXCEPT ![S].phase = "read", ![S].rest = b,
                                    ![S].body = b]
          /\ UNCHANGED <<messages, characters, unread, typingForId, failures>>
     ELSE /\ SendFailed(S)
          /\ failures' = failures + 1
  /\ UNCHANGED <<groups, selectedGroupId, groupMessages, characterMemories,
                 characterMemorySize, groupLoopAbortRef, loops, nSends>>
  /\ UNCHANGED <<selectedCharacterId, streamVars, settingsVars, suggestVars, cleaning, unreadGroups, suggestionRequests>>

\* reader.read() delivers the next k tokens of the body. sawError records that a
\* whole line with an error field was among the lines of a chunk, so that the
\* statement throwing for it was executed.
SingleRead(S, k) ==
  /\ S \in 1..Len(sends) /\ sends[S].phase = "read" /\ k \in 1..Len(sends[S].rest)
  /\ LET chunk == Take(sends[S].rest, k)
         lines == split(chunk)
     IN sends' = [sends EXCEPT ![S].rest = Drop(@, k),
                               ![S].full = decodeChunk(@, chunk),
                               ![S].sawError =
                                  @ \/ \E i \in 1..Len(lines) : lines[i] = ErrorLine]
  /\ UNCHANGED <<characters, groups, selectedGroupId, groupMessages, characterMemories,
                 characterMemorySize, typingForId, groupLoopAbortRef, loops, nSends,
                 failures>>
  /\ UNCHANGED <<selectedCharacterId, messages, unread, streamVars, settingsVars, suggestVars, cleaning, unreadGroups, suggestionRequests>>

\* reader.read() signals completion: the assistant message is appended, lastMessage
\* updated, the unread counter of the chat cleared, the typing indicator cleared
SingleReadDone(S) ==
  /\ S \in 1..Len(sends) /\ sends[S].phase = "read" /\ sends[S].rest = <<>>
  /\ LET chatId == sends[S].chatId
     IN /\ messages' = [messages EXCEPT ![chatId] =
                          Append(@, [id |-> <<S, "a">>, role |-> "assistant",
                                     content |-> sends[S].full])]
        /\ handleUpdateCharacter(chatId, "lastMessage", sends[S].full)
        /\ unread' = [unread EXCEPT ![chatId] = 0]
  /\ typingForId' = Null
  /\ sends' = [sends EXCEPT ![S].phase = "committed", ![S].timer = "pending"]
  /\ UNCHANGED <<groups, selectedGroupId, groupMessages, characterMemories,
                 characterMemorySize, groupLoopAbortRef, loops, nSends, failures>>
  /\ UNCHANGED <<selectedCharacterId, streamVars, settingsVars, suggestVars, cleaning, unreadGroups, suggestionRequests>>

\* ------------------------------------------------------------ characters and groups
\* Date.now() gives a new character or group an id that nothing stored refers to
FreshCharacterId(id) ==
  /\ id \notin DOMAIN characters
  /\ messages[id] = <<>> /\ unread[id] = 0
  /\ \A g \in Groups : characterMemories[g][id] = <<>>
  /\ \A g \in DOMAIN groups : \A i \in 1..Len(groups[g].memberIds) : groups[g].memberIds[i] # id
  /\ \A S \in 1..Len(sends) : sends[S].chatId # id
  /\ \A L \in 1..Len(loops) : \A i \in 1..Len(loops[L].memberIds) : loops[L].memberIds[i] # id

FreshGroupId(id) ==
  /\ id \notin DOMAIN groups
  /\ groupMessages[id] = <<>>
  /\ \A c \in Chars : characterMemories[id][c] = <<>>
  /\ \A L \in 1..Len(loops) : loops[L].chatId # id

\* the member lists the group form can hold: the checked boxes, in the order checked,
\* of characters that exist
MemberLists ==
  {m \in {<<"A">>, <<"B">>, <<"A", "B">>, <<"B", "A">>} :
     \A i \in 1..Len(m) : m[i] \in DOMAIN characters}

handleAddCharacter(id) ==
  /\ FreshCharacterId(id)
  /\ characters' = [c \in DOMAIN characters \cup {id} |->
                      IF c = id THEN [name |-> CharName[c], lastMessage |-> <<>>]
                      ELSE characters[c]]
  /\ UNCHANGED <<groups, selectedGroupId, groupMessages, characterMemories,
                 characterMemorySize, typingForId, groupLoopAbortRef, loops, nSends,
                 failures>>
  /\ UNCHANGED <<singleVars, streamVars, settingsVars, suggestVars, cleaning, unreadGroups, suggestionRequests>>

handleAddGroup(id, memberIds) ==
  /\ FreshGroupId(id)
  /\ groups' = [g \in DOMAIN groups \cup {id} |->
                  IF g = id THEN [memberIds |-> memberIds, autoReply |-> TRUE,
                                  autoParallel |-> FALSE]
                  ELSE groups[g]]
  /\ UNCHANGED <<characters, selectedGroupId, groupMessages, characterMemories,
                 characterMemorySize, typingForId, groupLoopAbortRef, loops, nSends,
                 failures>>
  /\ UNCHANGED <<singleVars, streamVars, settingsVars, suggestVars, cleaning, unreadGroups, suggestionRequests>>

\* the group form saved: an edited group takes the member list of the form, a new
\* group is added; nothing happens while no member is checked
handleSaveGroup(groupEditingId, id, groupMembers) ==
  /\ Len(groupMembers) > 0
  /\ IF groupEditingId # Null
     THEN /\ groupEditingId \in DOMAIN groups
          /\ handleUpdateGroup(groupEditingId, "memberIds", groupMembers)
          /\ UNCHANGED <<characters, selectedGroupId, groupMessages, characterMemories,
                         characterMemorySize, typingForId, groupLoopAbortRef, loops,
                         nSends, failures>>
          /\ UNCHANGED <<singleVars, streamVars, settingsVars, suggestVars, cleaning, unreadGroups, suggestionRequests>>
     ELSE handleAddGroup(id, groupMembers)

handleDeleteGroup(id) ==
  /\ id \in DOMAIN groups
  /\ groups' = [g \in DOMAIN groups \ {id} |-> groups[g]]
  /\ groupMessages' = [groupMessages EXCEPT ![id] = <<>>]
  /\ characterMemories' = clearCharacterMemories(characterMemories, id)
  /\ UNCHANGED <<characters, selectedGroupId, characterMemorySize, typingForId,
                 groupLoopAbortRef, loops, nSends, failures>>
  /\ UNCHANGED <<singleVars, streamVars, settingsVars, suggestVars, cleaning, unreadGroups, suggestionRequests>>

\* ------------------------------------------------------------ settings and storage
\* temperature is counted in tenths
SettingNames == {"temperature", "contextLength", "maxTokens", "globalPolicy",
                 "waitTimePerWord", "characterMemorySize", "apiContextSize",
                 "showTypingIndicator"}

Defaults == [temperature |-> DefaultTemperature, contextLength |-> DefaultContextLength,
             maxTokens |-> DefaultMaxTokens, globalPolicy |-> <<>>,
             waitTimePerWord |-> DefaultWaitTimePerWord,
             characterMemorySize |-> DefaultMemorySize,
             apiContextSize |-> DefaultApiContextSize, showTypingIndicator |-> TRUE]

\* the values the controls of the settings offer
SettingValues == [temperature |-> {DefaultTemperature, 10},
                  contextLength |-> {DefaultContextLength, 4096},
                  maxTokens |-> {DefaultMaxTokens, 256},
                  globalPolicy |-> {<<>>, <<"h">>},
                  waitTimePerWord |-> {50, DefaultWaitTimePerWord, 1000},
                  characterMemorySize |-> {5, DefaultMemorySize},
                  apiContextSize |-> {3, DefaultApiContextSize},
                  showTypingIndicator |-> BOOLEAN]

\* a slot of the storage is <<>> while nothing is stored, else the string stored
\* value.toString() and JSON.stringify(value): the string stored for a value
toString(value) == <<value>>

\* parseInt(saved), parseFloat(saved), JSON.parse(saved) of a string a setter stored
parse(saved) == saved[1]

\* a state initialiser: the slot's value when the slot holds a string, else the
\* default
useState(store, name) ==
  IF store[name] # <<>> THEN parse(store[name]) ELSE Defaults[name]

SettingsIdle ==
  /\ settings = [n \in SettingNames \ {"characterMemorySize"} |-> Defaults[n]]
  /\ storage = [n \in SettingNames |-> <<>>]
  /\ delayMs = <<>>

\* the setters of useState handed to the settings dialog as they are
setState(name, value) ==
  /\ settings' = [settings EXCEPT ![name] = value]
  /\ UNCHANGED <<storage, delayMs, characterMemorySize>>

\* handleWaitTimeChange, handleApiContextSizeChange, handleTypingIndicatorToggle
handleSettingChange(name, value) ==
  /\ settings' = [settings EXCEPT ![name] = value]
  /\ storage' = [storage EXCEPT ![name] = toString(value)]
  /\ UNCHANGED <<delayMs, characterMemorySize>>

handleCharacterMemorySizeChange(value) ==
  /\ characterMemorySize' = value
  /\ storage' = [storage EXCEPT !["characterMemorySize"] = toString(value)]
  /\ UNCHANGED <<settings, delayMs>>

\* a change made in the settings dialog or the group chat's settings
ChangeSetting(name, value) ==
  /\ value \in SettingValues[name]
  /\ CASE name \in {"temperature", "contextLength", "maxTokens", "globalPolicy"} ->
            setState(name, value)
       [] name = "characterMemorySize" -> handleCharacterMemorySizeChange(value)
       [] OTHER -> handleSettingChange(name, value)
  /\ UNCHANGED <<characters, groups, selectedGroupId, groupMessages, characterMemories,
                 typingForId, groupLoopAbortRef, loops, nSends, failures>>
  /\ UNCHANGED <<singleVars, streamVars, suggestVars, cleaning, unreadGroups, suggestionRequests>>

\* the page is loaded again: every initialiser reads its slot
Restart ==
  /\ settings' = [n \in SettingNames \ {"characterMemorySize"} |-> useState(storage, n)]
  /\ characterMemorySize' = useState(storage, "characterMemorySize")
  /\ delayMs' = <<>>
  /\ UNCHANGED storage
  /\ UNCHANGED <<characters, groups, selectedGroupId, groupMessages, characterMemories,
                 typingForId, groupLoopAbortRef, loops, nSends, failures>>
  /\ UNCHANGED <<singleVars, streamVars, suggestVars, cleaning, unreadGroups, suggestionRequests>>

\* faulty variant: the product is returned as it is
computeWaitMsGroupUnclamped(text) == wordCount(text) * settings.waitTimePerWord

computeWaitMsGroup(text) ==
  LET words == wordCount(text)
      ms == words * settings.waitTimePerWord
  IN MathMax(MinWaitMs, MathMin(MaxWaitMs, ms))

\* n words separated by single spaces
Words(n) == [i \in 1..(IF n = 0 THEN 0 ELSE 2 * n - 1) |-> IF i % 2 = 1 THEN "h" ELSE " "]

\* the texts a delay is computed for: the empty text, texts of words, and texts with
\* white space around them
WaitTexts ==
  {Words(n) : n \in 0..MaxWords}
    \cup {<<" ", "nl">> \o Words(n) \o <<" ">> : n \in 0..MaxWords}

\* a group turn computes the delay before its request
ComputeWait(text) ==
  /\ delayMs' = <<computeWaitMsGroup(text)>>
  /\ UNCHANGED <<settings, storage>>
  /\ UNCHANGED <<groupVars, singleVars, streamVars, suggestVars, cleaning, unreadGroups, suggestionRequests>>

\* ------------------------------------------------------------ suggestions
\* The text of a suggestion response is a sequence of tokens: "1" is a digit, "."
\* a full stop, "qt" a quote character, " " a space, "nl" a newline, the others
\* letters.
Digits == {"1"}

\* line.replace(/^\d+\.\s*/, '')
stripNumbering(line) ==
  LET d == LeadLen(line, Digits)
  IN IF d >= 1 /\ Len(line) > d /\ line[d + 1] = "."
     THEN LET r == Drop(line, d + 1) IN Drop(r, LeadLen(r, WhiteSpace))
     ELSE line

\* line.replace(/^["']|["']$/g, '')
stripQuoteEnds(line) ==
  LET a == IF Len(line) >= 1 /\ line[1] \in QuoteChars THEN Drop(line, 1) ELSE line
  IN IF Len(a) >= 1 /\ a[Len(a)] \in QuoteChars THEN Take(a, Len(a) - 1) ELSE a

NonEmpty(line) == Len(line) > 0

\* full.split('\n').map(..).filter(..).map(..).filter(..).slice(0, 3)
parseSuggestions(text) ==
  LET lines == split(text)
      m1 == [i \in 1..Len(lines) |-> Trim(stripNumbering(lines[i]))]
      f1 == SelectSeq(m1, NonEmpty)
      m2 == [i \in 1..Len(f1) |-> Trim(stripQuoteEnds(f1[i]))]
      f2 == SelectSeq(m2, NonEmpty)
  IN Take(f2, MathMin(3, Len(f2)))

\* faulty variant: two suggestions are enough
enoughSuggestionsTwo(suggestions) == Len(suggestions) >= 2

\* suggestions.length >= 3
enoughSuggestions(suggestions) == Len(suggestions) >= 3

\* the kinds of line a suggestion response is made of, and the responses
SuggestionLines == {<<"1", ".", " ", "a">>, <<"qt", "h", "qt">>, <<"1", ".", " ">>}

RECURSIVE SuggestionTextsOf(_)
SuggestionTextsOf(n) ==
  IF n = 1 THEN SuggestionLines
  ELSE LET shorter == SuggestionTextsOf(n - 1)
       IN shorter \cup {t \o <<"nl">> \o l : t \in shorter, l \in SuggestionLines}

SuggestionTexts == SuggestionTextsOf(MaxSuggestLines)

\* the request of generateIndividualSuggestions or generateSuggestedResponses for a
\* chat completes: nothing happens unless the response is OK and has a body;
\* otherwise the stream is read to its end, yielding the text, and the suggestions
\* parsed from it are stored and shown if there are enough of them
SuggestionsResponse(chatId, outcome, text) ==
  /\ generated' = <<[chatId |-> chatId, ok |-> outcome = "ok", text |-> text]>>
  /\ LET suggestions == parseSuggestions(text)
     IN IF outcome = "ok" /\ enoughSuggestions(suggestions)
        THEN /\ suggestedResponses' = [suggestedResponses EXCEPT ![chatId] = suggestions]
             /\ showSuggestions' = [showSuggestions EXCEPT ![chatId] = TRUE]
        ELSE UNCHANGED <<suggestedResponses, showSuggestions>>
  /\ UNCHANGED <<groupVars, singleVars, streamVars, settingsVars, cleaning, unreadGroups, suggestionRequests>>

\* the user types into the message box: the suggestions shown for the open chat are
\* hidden and dropped
handleInputChange(value) ==
  /\ generated' = <<>>
  /\ LET open == IF selectedGroupId # Null /\ showSuggestions[selectedGroupId]
                 THEN selectedGroupId
                 ELSE IF selectedCharacterId # Null /\ showSuggestions[selectedCharacterId]
                 THEN selectedCharacterId ELSE Null
     IN IF Trim(value) # <<>> /\ open # Null
        THEN /\ showSuggestions' = [showSuggestions EXCEPT ![open] = FALSE]
             /\ suggestedResponses' = [suggestedResponses EXCEPT ![open] = <<>>]
        ELSE UNCHANGED <<suggestedResponses, showSuggestions>>
  /\ UNCHANGED <<groupVars, singleVars, streamVars, settingsVars, cleaning, unreadGroups, suggestionRequests>>

\* ------------------------------------------------------------ suggestion timers
\* the request a suggestion generator issues for a chat: nothing when it is handed
\* no recent messages, else a request built from the last RecentCount of them
requestSuggestions(chatId, recentMessages) ==
  IF Len(recentMessages) = 0 THEN suggestionRequests
  ELSE Append(suggestionRequests,
              [chatId |-> chatId, context |-> SliceLast(recentMessages, RecentCount)])

\* the timer of single send S fires: generateIndividualSuggestions(chatId,
\* messages[chatId] || []), messages being the value the send captured. The
\* character is found: the send captured its characters at the same time.
generateIndividualSuggestions(S) ==
  /\ S \in 1..Len(sends) /\ sends[S].timer = "pending"
  /\ sends' = [sends EXCEPT ![S].timer = "fired"]
  /\ suggestionRequests' = requestSuggestions(sends[S].chatId, sends[S].messages)
  /\ UNCHANGED <<groupVars, selectedCharacterId, messages, unread, streamVars,
                 settingsVars, suggestVars, cleaning, unreadGroups>>

\* the timer of group send L fires: generateSuggestedResponses(chatId,
\* groupMessages[chatId] || []), groupMessages being the value the send captured
generateSuggestedResponses(L) ==
  /\ L \in 1..Len(loops) /\ loops[L].timer = "pending"
  /\ loops' = [loops EXCEPT ![L].timer = "fired"]
  /\ suggestionRequests' = requestSuggestions(loops[L].chatId, loops[L].groupMessages)
  /\ UNCHANGED <<characters, groups, selectedGroupId, groupMessages, characterMemories,
                 characterMemorySize, typingForId, groupLoopAbortRef, nSends, failures>>
  /\ UNCHANGED <<singleVars, streamVars, settingsVars, suggestVars, cleaning,
                 unreadGroups>>

\* ------------------------------------------------------------ sanitizer passes
\* the orchestrator's sanitize is applied to the text, or to the result of the pass
\* before
SanitizePass ==
  /\ cleaning.fn = "sanitize"
  /\ Len(cleaning.passes) \in 1..MaxPasses
  /\ cleaning' = [cleaning EXCEPT
                    !.passes = Append(@, sanitize(@[Len(@)]))]
  /\ UNCHANGED <<groupVars, singleVars, streamVars, settingsVars, suggestVars, unreadGroups, suggestionRequests>>

\* the display sanitizer is applied to the text, or to the result of the pass before
SanitizeGroupContentPass ==
  /\ cleaning.fn = "sanitizeGroupContent"
  /\ Len(cleaning.passes) \in 1..MaxPasses
  /\ cleaning' = [cleaning EXCEPT
                    !.passes = Append(@, sanitizeGroupContent(@[Len(@)],
                                                              cleaning.speakerName))]
  /\ UNCHANGED <<groupVars, singleVars, streamVars, settingsVars, suggestVars, unreadGroups, suggestionRequests>>

\* ------------------------------------------------------------ specifications
\* the state after construction: no transcript, no memory, no loop; the groups that
\* exist, their reply mode, the configured memory size and the characters left after
\* earlier deletions are inputs
\* the chats suggestions are generated for
SuggestChats == {"A", "g1"}

\* the unread counters read back from storage at startup
StoredUnread == {[c \in Chars |-> 0], [c \in Chars |-> IF c = "A" THEN 1 ELSE 0]}

SuggestIdle ==
  /\ suggestedResponses = [c \in SuggestChats |-> <<>>]
  /\ showSuggestions = [c \in SuggestChats |-> FALSE]
  /\ generated = <<>>

UnreadGroupsIdle == unreadGroups = [g \in Groups |-> 0]

CleanIdle == cleaning = [fn |-> "sanitize", speakerName |-> <<>>, passes |-> <<>>]

SingleIdle ==
  /\ selectedCharacterId = Null
  /\ messages = [c \in Chars |-> <<>>]
  /\ unread = [c \in Chars |-> 0]
  /\ sends = <<>>

StreamIdle == body = <<>> /\ rest = <<>> /\ full = <<>> /\ streamDone = FALSE

GroupIdle ==
  /\ characters = [c \in Chars |-> [name |-> CharName[c], lastMessage |-> <<>>]]
  /\ groups = [g \in {"g1"} |-> [memberIds |-> InitMembers[g], autoReply |-> TRUE,
                                   autoParallel |-> FALSE]]
  /\ selectedGroupId = Null
  /\ groupMessages = [g \in Groups |-> <<>>]
  /\ characterMemories = [g \in Groups |-> [c \in Chars |-> <<>>]]
  /\ characterMemorySize = DefaultMemorySize
  /\ typingForId = Null
  /\ groupLoopAbortRef = [g \in Groups |-> 0]
  /\ loops = <<>>
  /\ nSends = [g \in Groups |-> 0]
  /\ failures = 0

GroupInit(existing, modes, sizes, charsets) ==
  /\ characters \in {[c \in cs |-> [name |-> CharName[c], lastMessage |-> <<>>]] :
                       cs \in charsets}
  /\ groups \in {[g \in existing |-> [memberIds |-> InitMembers[g], autoReply |-> TRUE,
                                       autoParallel |-> p]] : p \in modes}
  /\ selectedGroupId = "g1"
  /\ groupMessages = [g \in Groups |-> <<>>]
  /\ characterMemories = [g \in Groups |-> [c \in Chars |-> <<>>]]
  /\ characterMemorySize \in sizes
  /\ typingForId = Null
  /\ groupLoopAbortRef = [g \in Groups |-> 0]
  /\ loops = <<>>
  /\ nSends = [g \in Groups |-> 0]
  /\ failures = 0
  /\ SingleIdle
  /\ StreamIdle
  /\ SettingsIdle
  /\ SuggestIdle
  /\ CleanIdle
  /\ UnreadGroupsIdle
  /\ suggestionRequests = <<>>

\* the outcomes a request may have while the failure budget lasts
Allowed(budget) == IF failures < budget THEN Outcomes ELSE {"ok"}

vars == <<groupVars, singleVars, streamVars, settingsVars, suggestVars, cleaning,
          unreadGroups, suggestionRequests>>

\* Spec: one group, both reply modes, overlapping sends, auto-reply switched on and off
Init == GroupInit({"g1"}, BOOLEAN, MemorySizes, {Chars})

Next ==
  \/ \E content \in UserTexts : TotalSends < MaxSends /\ handleSendGroupMessage(content)
  \/ \E L \in 1..MaxSends, i \in 1..2 : ParallelWake(L, i)
  \/ \E L \in 1..MaxSends, i \in 1..2, text \in ReplyTexts :
        ParallelResponse(L, i, "ok", text)
  \/ \E L \in 1..MaxSends : SeqWake(L)
  \/ \E L \in 1..MaxSends, text \in ReplyTexts : SeqResponse(L, "ok", text)
  \/ \E g \in Groups : handleToggleAutoReply(g)

Spec == Init /\ [][Next]_vars

\* ParSpec: two groups in parallel mode, requests that fail, members that match no
\* character (deleted before the send)
ParInit == GroupInit(Groups, {TRUE}, MemorySizes, {Chars, {"A"}, {"B"}})

ParNext ==
  \/ \E content \in UserTexts : TotalSends < MaxParSends /\ handleSendGroupMessage(content)
  \/ \E L \in 1..MaxParSends, i \in 1..2 : ParallelWake(L, i)
  \/ \E L \in 1..MaxParSends, i \in 1..2, text \in ReplyTexts :
       \E o \in Allowed(MaxParFailures) : ParallelResponse(L, i, o, text)
  \/ \E g \in Groups : onSelectGroup(g)

ParSpec == ParInit /\ [][ParNext]_vars

\* SeqSpec: one group in sequential mode, requests that fail, members that match no
\* character (deleted before the send); every sleep ends and every request completes
SeqInit == GroupInit({"g1"}, {FALSE}, {2}, {Chars, {"B"}})

SeqStep ==
  \/ \E L \in 1..MaxSeqSends : SeqWake(L)
  \/ \E L \in 1..MaxSeqSends, text \in ReplyTexts :
       \E o \in Allowed(MaxSeqFailures) : SeqResponse(L, o, text)

SeqNext ==
  \/ \E content \in UserTexts : TotalSends < MaxSeqSends /\ handleSendGroupMessage(content)
  \/ SeqStep

SeqSpec == SeqInit /\ [][SeqNext]_vars /\ WF_vars(SeqStep)

\* StreamSpec: the read loop over one response body, delivered in chunks of any size
StreamInit ==
  /\ GroupIdle
  /\ SingleIdle
  /\ body \in Bodies /\ rest = body /\ full = <<>> /\ streamDone = FALSE
  /\ SettingsIdle
  /\ SuggestIdle
  /\ CleanIdle
  /\ UnreadGroupsIdle
  /\ suggestionRequests = <<>>

StreamNext ==
  \/ \E k \in 1..MaxChunk : ReadChunk(k)
  \/ ReadDone

StreamSpec == StreamInit /\ [][StreamNext]_vars

\* SingleSpec: 1:1 chats with two characters, sends that overlap, requests that fail,
\* response bodies delivered whole or in pieces
SingleInit ==
  /\ GroupIdle
  /\ StreamIdle
  /\ SettingsIdle
  /\ SuggestIdle
  /\ CleanIdle
  /\ UnreadGroupsIdle
  /\ suggestionRequests = <<>>
  /\ selectedCharacterId = Null
  /\ messages = [c \in Chars |-> <<>>]
  /\ unread \in StoredUnread
  /\ sends = <<>>

SingleNext ==
  \/ \E id \in Chars : onSelectCharacter(id)
  \/ \E content \in UserTexts : Len(sends) < MaxSingleSends /\ handleSendMessage(content)
  \/ \E S \in 1..MaxSingleSends : SingleWake(S)
  \/ \E S \in 1..MaxSingleSends, b \in SingleBodies :
       \E o \in Allowed(MaxSingleFailures) : SingleResponse(S, o, b)
  \/ \E S \in 1..MaxSingleSends, k \in 1..MaxChunk : SingleRead(S, k)
  \/ \E S \in 1..MaxSingleSends : SingleReadDone(S)

SingleSpec == SingleInit /\ [][SingleNext]_vars

\* CrudSpec: characters and groups created, edited and deleted while chats are
\* selected and sends are in flight
CrudInit ==
  /\ characters = [c \in {"A"} |-> [name |-> CharName[c], lastMessage |-> <<>>]]
  /\ groups = [g \in {"g1"} |-> [memberIds |-> <<"A">>, autoReply |-> TRUE,
                                   autoParallel |-> TRUE]]
  /\ selectedGroupId = Null
  /\ groupMessages = [g \in Groups |-> <<>>]
  /\ characterMemories = [g \in Groups |-> [c \in Chars |-> <<>>]]
  /\ characterMemorySize = DefaultMemorySize
  /\ typingForId = Null
  /\ groupLoopAbortRef = [g \in Groups |-> 0]
  /\ loops = <<>>
  /\ nSends = [g \in Groups |-> 0]
  /\ failures = 0
  /\ selectedCharacterId = Null
  /\ messages = [c \in Chars |-> <<>>]
  /\ unread = [c \in Chars |-> 0]
  /\ sends = <<>>
  /\ StreamIdle
  /\ SettingsIdle
  /\ SuggestIdle
  /\ CleanIdle
  /\ UnreadGroupsIdle
  /\ suggestionRequests = <<>>

CrudNext ==
  \/ \E id \in Chars : handleAddCharacter(id)
  \/ \E id \in Chars : handleDeleteCharacter(id)
  \/ \E e \in DOMAIN groups \cup {Null}, id \in Groups, m \in MemberLists :
       handleSaveGroup(e, id, m)
  \/ \E id \in Groups : handleDeleteGroup(id)
  \/ \E id \in Chars : onSelectCharacter(id)
  \/ \E id \in Groups : onSelectGroup(id)
  \/ \E content \in UserTexts : Len(sends) < MaxCrudSends /\ handleSendMessage(content)
  \/ \E S \in 1..MaxCrudSends : SingleWake(S)
  \/ \E S \in 1..MaxCrudSends : SingleResponse(S, "ok", ContentLine(<<"a">>) \o <<"nl">>)
  \/ \E S \in 1..MaxCrudSends : SingleRead(S, Len(sends[S].rest))
  \/ \E S \in 1..MaxCrudSends : SingleReadDone(S)
  \/ \E content \in UserTexts :
       TotalSends < MaxCrudGroupSends /\ handleSendGroupMessage(content)
  \/ \E L \in 1..MaxCrudGroupSends, i \in 1..2 : ParallelWake(L, i)
  \/ \E L \in 1..MaxCrudGroupSends, i \in 1..2, text \in ReplyTexts :
       ParallelResponse(L, i, "ok", text)

CrudSpec == CrudInit /\ [][CrudNext]_vars

\* SettingsSpec: the settings changed through their controls, the page loaded again,
\* delays computed for texts of up to MaxWords words
SettingsInit ==
  /\ GroupIdle /\ SingleIdle /\ StreamIdle /\ SettingsIdle /\ SuggestIdle /\ CleanIdle
  /\ UnreadGroupsIdle
  /\ suggestionRequests = <<>>

SettingsNext ==
  \/ \E name \in SettingNames : \E value \in SettingValues[name] :
       ChangeSetting(name, value)
  \/ Restart
  \/ \E text \in WaitTexts : ComputeWait(text)

SettingsSpec == SettingsInit /\ [][SettingsNext]_vars

\* SuggestSpec: suggestion responses arriving for the open chat (a 1:1 chat or a
\* group chat), the user typing in between
SuggestInit ==
  /\ characters = [c \in Chars |-> [name |-> CharName[c], lastMessage |-> <<>>]]
  /\ groups = [g \in {"g1"} |-> [memberIds |-> InitMembers[g], autoReply |-> TRUE,
                                   autoParallel |-> FALSE]]
  /\ \/ selectedCharacterId = "A" /\ selectedGroupId = Null
     \/ selectedCharacterId = Null /\ selectedGroupId = "g1"
  /\ groupMessages = [g \in Groups |-> <<>>]
  /\ characterMemories = [g \in Groups |-> [c \in Chars |-> <<>>]]
  /\ characterMemorySize = DefaultMemorySize
  /\ typingForId = Null
  /\ groupLoopAbortRef = [g \in Groups |-> 0]
  /\ loops = <<>>
  /\ nSends = [g \in Groups |-> 0]
  /\ failures = 0
  /\ messages = [c \in Chars |-> <<>>]
  /\ unread = [c \in Chars |-> 0]
  /\ sends = <<>>
  /\ body = <<>> /\ rest = <<>> /\ full = <<>> /\ streamDone = FALSE
  /\ SettingsIdle
  /\ SuggestIdle
  /\ CleanIdle
  /\ UnreadGroupsIdle
  /\ suggestionRequests = <<>>

SuggestNext ==
  \/ \E chatId \in SuggestChats \cap {selectedCharacterId, selectedGroupId},
        outcome \in {"ok", "notOk"}, text \in SuggestionTexts :
          SuggestionsResponse(chatId, outcome, text)
  \/ \E value \in {<<"h">>, <<" ">>} : handleInputChange(value)

SuggestSpec == SuggestInit /\ [][SuggestNext]_vars

\* TurnSpec: the turns of sequential runs; the first reply of a run may have two
\* leading tags
TurnInit == GroupInit({"g1"}, {FALSE}, {2}, {Chars, {"B"}})

TurnNext ==
  \/ \E content \in UserTexts : TotalSends < MaxSeqSends /\ handleSendGroupMessage(content)
  \/ \E L \in 1..MaxSeqSends : SeqWake(L)
  \/ \E L \in 1..MaxSeqSends, text \in ReplyTexts \cup TaggedTexts :
       \E o \in Allowed(MaxSeqFailures) :
         /\ text \in TaggedTexts => (L <= Len(loops) /\ loops[L].nMsgs = 0)
         /\ SeqResponse(L, o, text)

TurnSpec == TurnInit /\ [][TurnNext]_vars

\* TimerSpec: single sends and parallel group sends that succeed, followed by their
\* suggestion timers; every sleep ends, every request completes, every timer fires
TimerInit ==
  /\ GroupInit({"g1"}, {TRUE}, {2}, {Chars})
  /\ selectedGroupId = "g1"

TimerStep ==
  \/ \E S \in 1..MaxTimerSends : SingleWake(S)
  \/ \E S \in 1..MaxTimerSends :
       SingleResponse(S, "ok", ContentLine(<<"a">>) \o <<"nl">>)
  \/ \E S \in 1..MaxTimerSends : S <= Len(sends) /\ SingleRead(S, Len(sends[S].rest))
  \/ \E S \in 1..MaxTimerSends : SingleReadDone(S)
  \/ \E S \in 1..MaxTimerSends : generateIndividualSuggestions(S)
  \/ \E L \in 1..MaxTimerSends, i \in 1..2 : ParallelWake(L, i)
  \/ \E L \in 1..MaxTimerSends, i \in 1..2, text \in ReplyTexts :
       ParallelResponse(L, i, "ok", text)
  \/ \E L \in 1..MaxTimerSends : generateSuggestedResponses(L)

TimerNext ==
  \/ \E id \in {"A"} : onSelectCharacter(id)
  \/ \E id \in {"g1"} : onSelectGroup(id)
  \/ \E content \in UserTexts : Len(sends) < MaxTimerSends /\ handleSendMessage(content)
  \/ \E content \in UserTexts : TotalSends < MaxTimerSends /\ handleSendGroupMessage(content)
  \/ TimerStep

TimerSpec == TimerInit /\ [][TimerNext]_vars /\ WF_vars(TimerStep)

\* ClearSpec: two groups in parallel mode, the history of the open group cleared at
\* any moment
ClearInit == GroupInit(Groups, {TRUE}, {2}, {Chars})

ClearNext ==
  \/ \E content \in UserTexts : TotalSends < MaxClearSends /\ handleSendGroupMessage(content)
  \/ \E L \in 1..MaxClearSends, i \in 1..2 : ParallelWake(L, i)
  \/ \E L \in 1..MaxClearSends, i \in 1..2, text \in ReplyTexts :
       ParallelResponse(L, i, "ok", text)
  \/ \E g \in Groups : onSelectGroup(g)
  \/ \E g \in Groups : handleClearGroupHistory(g)

ClearSpec == ClearInit /\ [][ClearNext]_vars

\* DelaySpec: single sends of texts of up to MaxWords words
DelayNext ==
  \/ \E id \in Chars : onSelectCharacter(id)
  \/ \E content \in WaitTexts : Len(sends) < MaxDelaySends /\ handleSendMessage(content)
  \/ \E S \in 1..MaxDelaySends : SingleWake(S)
  \/ \E S \in 1..MaxDelaySends : SingleResponse(S, "ok", ContentLine(<<"a">>) \o <<"nl">>)
  \/ \E S \in 1..MaxDelaySends, k \in 1..MaxChunk : SingleRead(S, k)
  \/ \E S \in 1..MaxDelaySends : SingleReadDone(S)

DelaySpec == SingleInit /\ [][DelayNext]_vars

\* DanglingSpec: one group with members [A, B] in either reply mode, one or none of
\* the two characters deleted before the send, every request answered
DanglingInit == GroupInit({"g1"}, BOOLEAN, MemorySizes, {Chars, {"A"}, {"B"}})

DanglingNext ==
  \/ \E content \in UserTexts :
       TotalSends < MaxDanglingSends /\ handleSendGroupMessage(content)
  \/ \E L \in 1..MaxDanglingSends, i \in 1..2 : ParallelWake(L, i)
  \/ \E L \in 1..MaxDanglingSends, i \in 1..2, text \in ReplyTexts :
       ParallelResponse(L, i, "ok", text)
  \/ \E L \in 1..MaxDanglingSends : SeqWake(L)
  \/ \E L \in 1..MaxDanglingSends, text \in ReplyTexts : SeqResponse(L, "ok", text)

DanglingSpec == DanglingInit /\ [][DanglingNext]_vars

\* DecodeSpec: single sends whose response bodies hold a line that is not valid JSON
\* between two content lines, read in chunks of any size
DecodeNext ==
  \/ \E id \in Chars : onSelectCharacter(id)
  \/ Len(sends) < MaxDecodeSends /\ handleSendMessage(<<"h">>)
  \/ \E S \in 1..MaxDecodeSends : SingleWake(S)
  \/ \E S \in 1..MaxDecodeSends, b \in DecodeBodies : SingleResponse(S, "ok", b)
  \/ \E S \in 1..MaxDecodeSends, k \in 1..MaxChunk : SingleRead(S, k)
  \/ \E S \in 1..MaxDecodeSends : SingleReadDone(S)

DecodeSpec == SingleInit /\ [][DecodeNext]_vars

\* SanitizeSpec: a text is put through one of the two sanitizers, pass after pass
SanitizeInit ==
  /\ GroupIdle /\ SingleIdle /\ StreamIdle /\ SettingsIdle /\ SuggestIdle
  /\ UnreadGroupsIdle
  /\ suggestionRequests = <<>>
  /\ \E text \in SanitizeTexts :
       \/ cleaning = [fn |-> "sanitize", speakerName |-> <<>>, passes |-> <<text>>]
       \/ \E speakerName \in SpeakerNames :
            cleaning = [fn |-> "sanitizeGroupContent", speakerName |-> speakerName,
                        passes |-> <<text>>]

SanitizeNext == SanitizePass \/ SanitizeGroupContentPass

SanitizeSpec == SanitizeInit /\ [][SanitizeNext]_vars

\* ------------------------------------------------------------ claims under Spec
Running(L) == ~loops[L].done
LoopsOf(g) == {L \in 1..Len(loops) : loops[L].chatId = g}
IsSuffix(t, s) == Len(t) <= Len(s) /\ t = SubSeq(s, Len(s) - Len(t) + 1, Len(s))
Last(s) == s[Len(s)]
Front(s) == SubSeq(s, 1, Len(s) - 1)

\* C1: after any sequence of updateCharacterMemory calls, the memory list of every
\* (group, character) pair has at most characterMemorySize entries.
C1_MemoryWithinCap ==
  \A g \in Groups, c \in Chars : Len(characterMemories[g][c]) <= characterMemorySize

\* C2 (as claimed): once a new group send for group g has begun, an earlier loop for
\* g appends no further GroupMessage and no further memory entry.
C2_AnyNewSendCancels ==
  [][\A L \in 1..Len(loops) :
       loops[L].sendNo < nSends[loops[L].chatId] =>
         /\ loops'[L].nMsgs = loops[L].nMsgs
         /\ loops'[L].nMem = loops[L].nMem]_vars

\* C2 (amended): once a new group send for g has got past the auto-reply check and
\* started its own loop, every earlier loop for g appends no further GroupMessage
\* and no further memory entry, in parallel and in sequential mode.
C2_NewLoopCancels ==
  [][\A L \in 1..Len(loops) :
       (\E M \in LoopsOf(loops[L].chatId) : M > L) =>
         /\ loops'[L].nMsgs = loops[L].nMsgs
         /\ loops'[L].nMem = loops[L].nMem]_vars

\* a sequential loop cancelled in the middle of its second round, after it had
\* appended three replies, and the loop of the later send appending its own
C2_Witness ==
  \E L \in 1..Len(loops) :
    /\ loops[L].aborted /\ loops[L].done /\ ~loops[L].parallel
    /\ loops[L].iter = 1 /\ loops[L].nMsgs = 3
    /\ \E M \in LoopsOf(loops[L].chatId) : M > L /\ loops[M].nMsgs > 0

\* C3: for every group at most one loop that is still running has a signal that is
\* not aborted, and that loop is the one whose controller the group's slot holds.
C3_OneActiveLoop ==
  \A g \in Groups :
    /\ Cardinality({L \in LoopsOf(g) : Running(L) /\ ~loops[L].aborted}) <= 1
    /\ \A L \in LoopsOf(g) : Running(L) /\ ~loops[L].aborted => groupLoopAbortRef[g] = L

\* two overlapping sends: the first loop still running, aborted, the second active
C3_Witness ==
  \E L, M \in 1..Len(loops) :
    /\ L < M /\ loops[L].chatId = loops[M].chatId
    /\ Running(L) /\ loops[L].aborted
    /\ Running(M) /\ ~loops[M].aborted

\* C4: a step that appends member A's reply to g's transcript appends exactly one
\* "assistant" entry with that content to A's own memory, and exactly one "user"
\* entry, the content prefixed with A's name, to the memory of every other member.
C4_ReplyStep(g) ==
  LET m == Last(groupMessages'[g])
      l == loops[m.id[1]]
      own == characterMemories'[g][m.senderId]
  IN /\ Last(own) = [role |-> "assistant", content |-> m.content]
     /\ IsSuffix(Front(own), characterMemories[g][m.senderId])
     /\ \A i \in 1..Len(l.memberIds) :
          l.memberIds[i] # m.senderId =>
            LET other == characterMemories'[g][l.memberIds[i]]
            IN /\ Last(other) = [role |-> "user",
                                 content |-> CharName[m.senderId] \o <<":", " ">> \o m.content]
               /\ IsSuffix(Front(other), characterMemories[g][l.memberIds[i]])

C4_ReplyMemory ==
  [][\A g \in Groups :
       (/\ Len(groupMessages'[g]) = Len(groupMessages[g]) + 1
        /\ Last(groupMessages'[g]).senderId # "user") => C4_ReplyStep(g)]_vars

\* both members of a sequential loop have replied, and each memory ends as claimed
C4_Witness ==
  \E L \in 1..Len(loops) :
    /\ ~loops[L].parallel /\ loops[L].nMsgs = 2
    /\ Last(characterMemories[loops[L].chatId]["B"]).role = "assistant"
    /\ Last(characterMemories[loops[L].chatId]["A"]) =
         [role |-> "user", content |-> <<"b", ":", " ", "a">>]

\* ------------------------------------------------------------ claims under ParSpec
Count(s, e) == Cardinality({k \in 1..Len(s) : s[k] = e})
From(t, c) == {k \in 1..Len(t) : t[k].senderId = c}
ContentFrom(t, c) == t[CHOOSE k \in From(t, c) : TRUE].content
UserEntry(text) == [role |-> "user", content |-> text]
OwnEntry(text) == [role |-> "assistant", content |-> text]
HeardEntry(c, text) == [role |-> "user", content |-> CharName[c] \o <<":", " ">> \o text]

\* the first send to g1 (members A, B), both requests answered, memory able to hold
\* the three entries
C5_Scenario(L) ==
  /\ loops[L].chatId = "g1" /\ nSends["g1"] = 1 /\ loops[L].done
  /\ \A i \in 1..Len(loops[L].task) : loops[L].task[i] = "replied"
  /\ characterMemorySize >= 2

\* C5: in parallel mode with members [A, B] and every request succeeding, one user
\* send ends, under every interleaving, with exactly one GroupMessage from A and one
\* from B, A's memory holding the user message once, A's reply once as "assistant"
\* and B's reply once as "user", and B's memory symmetric.
C5_ParallelScenario ==
  \A L \in 1..Len(loops) :
    C5_Scenario(L) =>
      LET t == groupMessages["g1"]
          memA == characterMemories["g1"]["A"]
          memB == characterMemories["g1"]["B"]
      IN /\ Len(t) = 3
         /\ Cardinality(From(t, "A")) = 1 /\ Cardinality(From(t, "B")) = 1
         /\ Len(memA) = 3 /\ Len(memB) = 3
         /\ Count(memA, UserEntry(sanitize(loops[L].content))) = 1
         /\ Count(memA, OwnEntry(ContentFrom(t, "A"))) = 1
         /\ Count(memA, HeardEntry("B", ContentFrom(t, "B"))) = 1
         /\ Count(memB, UserEntry(sanitize(loops[L].content))) = 1
         /\ Count(memB, OwnEntry(ContentFrom(t, "B"))) = 1
         /\ Count(memB, HeardEntry("A", ContentFrom(t, "A"))) = 1

\* the scenario has run to its end, B's reply arriving before A's
C5_Witness ==
  \E L \in 1..Len(loops) :
    /\ C5_Scenario(L)
    /\ groupMessages["g1"][2].senderId = "B"

\* the replies loop L has in its group's transcript, by GroupMessage id
RepliesOf(L) ==
  {groupMessages[loops[L].chatId][k].id :
     k \in {j \in 1..Len(groupMessages[loops[L].chatId]) :
              groupMessages[loops[L].chatId][j].id[1] = L}}

C6_Settled ==
  \A L \in 1..Len(loops) :
    /\ loops[L].done => \A i \in 1..Len(loops[L].task) : loops[L].task[i] \in Settled
    /\ RepliesOf(L) = {<<L, i - 1>> : i \in {j \in 1..Len(loops[L].task) :
                                               loops[L].task[j] = "replied"}}

C6_NoEntry ==
  \A g \in Groups, c \in Chars :
    Cardinality({k \in 1..Len(characterMemories[g][c]) :
                   characterMemories[g][c][k].role = "assistant"})
      <= Cardinality({L \in LoopsOf(g) :
                        \E i \in 1..Len(loops[L].task) :
                          loops[L].memberIds[i] = c /\ loops[L].task[i] = "replied"})

C6_FailingStep ==
  \A L \in 1..Len(loops) : \A i \in 1..Len(loops[L].task) :
    (loops[L].task[i] \notin Settled /\ loops'[L].task[i] \in {"returned", "rejected"}) =>
      /\ UNCHANGED <<groupMessages, characterMemories>>
      /\ \A j \in 1..Len(loops[L].task) : j # i => loops'[L].task[j] = loops[L].task[j]

\* C6: in parallel mode a member task that fails (rejected fetch, non-OK response,
\* missing body, missing character) contributes no GroupMessage and no memory entry
\* and leaves its siblings running, so their replies are appended; the send
\* completes only after every member task has settled.
C6_FailedTaskIsolated ==
  [](C6_Settled /\ C6_NoEntry) /\ [][C6_FailingStep]_vars

\* A's request was rejected, B replied, and the send has completed
C6_Witness ==
  \E L \in 1..Len(loops) :
    /\ loops[L].done /\ loops[L].task = <<"rejected", "replied">>
    /\ ~loops[L].aborted
    /\ RepliesOf(L) = {<<L, 1>>}

\* ------------------------------------------------------------ claims under SeqSpec
Positions(L) ==
  {j \in 1..Len(groupMessages[loops[L].chatId]) :
     groupMessages[loops[L].chatId][j].id[1] = L}

C7_Bounded ==
  \A L \in 1..Len(loops) :
    LET l == loops[L]
        n == Len(l.memberIds)
        t == groupMessages[l.chatId]
    IN /\ l.iter < iterations
       /\ l.nMsgs <= iterations * n /\ l.nReq <= iterations * n
       /\ Cardinality(Positions(L)) = l.nMsgs
       /\ \A p \in Positions(L) :
            /\ t[p].id[2] < iterations * n
            /\ t[p].senderId = l.memberIds[(t[p].id[2] % n) + 1]
       /\ \A p, q \in Positions(L) : p < q => t[p].id[2] < t[q].id[2]

C7_EndsIdle ==
  \A L \in 1..Len(loops') :
    (loops'[L].done /\ (L > Len(loops) \/ ~loops[L].done)) => typingForId' = Null

\* every loop that starts ends: from some point on no loop is running
C7_Terminates == <>[](\A L \in 1..Len(loops) : loops[L].done)

\* C7: a sequential send runs at most 8 rounds, takes the members in memberIds order
\* within each round, appends at most 8 * |memberIds| replies and, every request
\* completing, terminates, the typing indicator cleared as it ends.
C7_SequentialRun ==
  []C7_Bounded /\ [][C7_EndsIdle]_vars /\ C7_Terminates

\* a loop that ran all 8 rounds of 2 members and ended
C7_Witness ==
  \E L \in 1..Len(loops) :
    /\ loops[L].done /\ loops[L].nMsgs = iterations * 2 /\ typingForId = Null

\* ------------------------------------------------------------ claims under StreamSpec
\* the lines of a whole body, and the concatenation of the content fields of its
\* 'data: ' lines in order
RECURSIVE ContentOfLines(_)
ContentOfLines(lines) ==
  IF lines = <<>> THEN <<>>
  ELSE LET line == Head(lines)
           data == JSONparse(Drop(line, 1))
       IN (IF Len(line) >= 1 /\ line[1] = "D" /\ ~data.threw THEN data.content ELSE <<>>)
          \o ContentOfLines(Tail(lines))

ContentOfBody(b) == ContentOfLines(split(b))

\* C8: when the reader has signalled completion, the accumulated text is the
\* concatenation, in order, of the content fields of all 'data: ' lines of the body,
\* whatever the chunks the body was read in.
C8_ChunkIndependent == streamDone => full = ContentOfBody(body)

\* ------------------------------------------------------------ claims under SingleSpec
\* C9: a single-character send that read a line with an error field does not commit
\* an assistant message: it ends as a failure.
C9_ErrorLineFails ==
  \A S \in 1..Len(sends) :
    sends[S].sawError =>
      /\ sends[S].phase # "committed"
      /\ \A p \in 1..Len(messages[sends[S].chatId]) :
           messages[sends[S].chatId][p].id # <<S, "a">>

HasMessage(chatId, id) ==
  \E p \in 1..Len(messages[chatId]) : messages[chatId][p].id = id

\* a failed send issued one request, its user message is in the transcript and no
\* assistant message of it is
C10_Failed ==
  \A S \in 1..Len(sends) :
    sends[S].phase = "failed" =>
      /\ sends[S].nReq = 1
      /\ HasMessage(sends[S].chatId, <<S, "u">>)
      /\ ~HasMessage(sends[S].chatId, <<S, "a">>)

\* the step in which a send fails leaves every transcript and every character as
\* they were, issues no request, and clears the typing indicator
C10_FailingStep ==
  \A S \in 1..Len(sends) :
    (sends[S].phase # "failed" /\ sends'[S].phase = "failed") =>
      /\ messages' = messages
      /\ characters' = characters
      /\ \A T \in 1..Len(sends) : sends'[T].nReq = sends[T].nReq
      /\ typingForId' = Null

\* C10: when a single-character send fails (the fetch rejects, the status is not
\* 2xx, or the response has no body), the transcript keeps the user message and gains
\* no assistant message, lastMessage is unchanged, no second request is issued, and
\* the typing indicator is cleared.
C10_FailureLeavesTranscript == []C10_Failed /\ [][C10_FailingStep]_vars

\* a send failed after an earlier send to the same character had committed a reply
C10_Witness ==
  \E S, T \in 1..Len(sends) :
    /\ sends[S].phase = "failed" /\ sends[T].phase = "committed"
    /\ sends[S].chatId = sends[T].chatId
    /\ characters[sends[S].chatId].lastMessage = <<"a">>
    /\ typingForId = Null

\* the positions of the message with the given id in a transcript
PositionsOf(chatId, id) ==
  {p \in 1..Len(messages[chatId]) : messages[chatId][p].id = id}

\* a send that succeeded issued one request, and the transcript of its character
\* holds its user message once and, after it, its assistant message once
C11_Committed ==
  \A S \in 1..Len(sends) :
    sends[S].phase = "committed" =>
      LET c == sends[S].chatId
          u == PositionsOf(c, <<S, "u">>)
          a == PositionsOf(c, <<S, "a">>)
      IN /\ sends[S].nReq = 1
         /\ Cardinality(u) = 1 /\ Cardinality(a) = 1
         /\ \A p \in u, q \in a :
              /\ p < q
              /\ messages[c][p].role = "user" /\ messages[c][p].content = sends[S].content
              /\ messages[c][q].role = "assistant" /\ messages[c][q].content = sends[S].full

\* the step in which a send succeeds appends the assistant message, sets lastMessage
\* to its content, leaves no unread counter for the character and no typing indicator
C11_CommitStep ==
  \A S \in 1..Len(sends) :
    (sends[S].phase # "committed" /\ sends'[S].phase = "committed") =>
      LET c == sends[S].chatId
      IN /\ sends[S].phase = "read"
         /\ messages'[c] = Append(messages[c], [id |-> <<S, "a">>, role |-> "assistant",
                                                content |-> sends[S].full])
         /\ characters'[c].lastMessage = sends[S].full
         /\ unread'[c] = 0
         /\ typingForId' = Null

\* C11: a successful single-character send to c appends one user message and then
\* one assistant message to c's transcript, sets c's lastMessage to the assistant
\* content, removes c's unread counter and ends with the typing indicator inactive.
C11_SuccessfulSend == []C11_Committed /\ [][C11_CommitStep]_vars

\* one send to B succeeded: the transcript is the user message and the reply
C11_Witness ==
  /\ Len(sends) = 1 /\ sends[1].phase = "committed" /\ sends[1].chatId = "B"
  /\ Len(messages["B"]) = 2 /\ messages["B"][2].content = <<"a">>
  /\ characters["B"].lastMessage = <<"a">>
  /\ unread["B"] = 0 /\ typingForId = Null

\* ------------------------------------------------------------ claims under CrudSpec
\* C12: nothing is stored for the id of a character or group that does not exist (an
\* id is given to a new character or group only when nothing refers to it, so such
\* an id is one that was deleted): no messages, no per-character memory, no unread
\* counter, also when a send for the id was in flight at the deletion.
C12_DeleteCascades ==
  /\ \A c \in Chars \ DOMAIN characters :
       /\ messages[c] = <<>>
       /\ unread[c] = 0
       /\ \A g \in Groups : characterMemories[g][c] = <<>>
  /\ \A g \in Groups \ DOMAIN groups :
       /\ groupMessages[g] = <<>>
       /\ \A c \in Chars : characterMemories[g][c] = <<>>

\* C13: every id in every group's memberIds is the id of an existing character.
C13_MembersExist ==
  \A g \in DOMAIN groups :
    \A i \in 1..Len(groups[g].memberIds) : groups[g].memberIds[i] \in DOMAIN characters

\* ------------------------------------------------------------ more claims under Spec
\* C14: a step that updates a memory list leaves the most recent entries of the old
\* list (all of them, or the last characterMemorySize when there were more), in their
\* order, followed by the new entry: what is removed is the oldest.
C14_FifoEviction ==
  [][\A g \in Groups, c \in Chars :
       LET old == characterMemories[g][c]
           new == characterMemories'[g][c]
       IN new # old =>
            /\ Len(new) >= 1
            /\ IsSuffix(Front(new), old)
            /\ Len(Front(new)) = IF Len(old) <= characterMemorySize
                                 THEN Len(old) ELSE characterMemorySize]_vars

\* a list that has been through evictions: more entries were appended than it holds,
\* and the user entry it began with is gone
C14_Witness ==
  \E L \in 1..Len(loops) :
    /\ loops[L].nMsgs >= 4
    /\ Len(characterMemories["g1"]["A"]) = characterMemorySize + 1
    /\ characterMemories["g1"]["A"][1] # [role |-> "user", content |-> <<"h">>]

\* ------------------------------------------------------------ claims under SettingsSpec
\* C15: whatever the text and the configured waitTimePerWord, the delay
\* computeWaitMsGroup returns is at least 500 and at most 5000.
C15_WaitClamped ==
  delayMs # <<>> => (delayMs[1] >= MinWaitMs /\ delayMs[1] <= MaxWaitMs)

\* a text of enough words at the largest per-word delay: the product is above the
\* range and the delay returned is the upper end
C15_Witness == delayMs = <<MaxWaitMs>> /\ settings.waitTimePerWord = 1000

\* ------------------------------------------------------------ claims under SuggestSpec
\* the non-empty lines of a text after numbering and wrapping quotes are stripped
UsableLines(text) ==
  LET lines == split(text)
      stripped == [i \in 1..Len(lines) |->
                     Trim(stripQuoteEnds(Trim(stripNumbering(lines[i]))))]
  IN SelectSeq(stripped, NonEmpty)

\* C16: a step that handles a suggestion response stores and shows suggestions for
\* the chat exactly when the response yields at least 3 usable lines (the first 3
\* are stored); with fewer the stored suggestions and the show flag of every chat
\* stay as they were. No other step stores or shows suggestions.
C16_ThreeOrNothing ==
  [][IF generated' # <<>>
     THEN LET g == generated'[1]
              u == UsableLines(g.text)
          IN IF g.ok /\ Len(u) >= 3
             THEN /\ suggestedResponses' =
                       [suggestedResponses EXCEPT ![g.chatId] = SubSeq(u, 1, 3)]
                  /\ showSuggestions' = [showSuggestions EXCEPT ![g.chatId] = TRUE]
             ELSE /\ suggestedResponses' = suggestedResponses
                  /\ showSuggestions' = showSuggestions
     ELSE \A c \in SuggestChats :
            /\ showSuggestions'[c] => showSuggestions[c]
            /\ suggestedResponses'[c] \in {suggestedResponses[c], <<>>}]_vars

\* a response with only two usable lines among three has just been handled for a chat
\* whose suggestions from an earlier response are still stored and shown
C16_Witness ==
  /\ generated # <<>>
  /\ generated[1].ok /\ Len(split(generated[1].text)) = 3
  /\ Len(UsableLines(generated[1].text)) = 2
  /\ showSuggestions[generated[1].chatId]
  /\ Len(suggestedResponses[generated[1].chatId]) = 3

\* ------------------------------------------------------------ claims under SettingsSpec (2)
\* C17: every scalar setting is mirrored in its slot of the storage: loading the
\* page again, which runs every initialiser on the storage, gives each setting the
\* value it has now.
C17_SettingsMirrored ==
  /\ \A n \in SettingNames \ {"characterMemorySize"} : useState(storage, n) = settings[n]
  /\ useState(storage, "characterMemorySize") = characterMemorySize

\* ------------------------------------------------------------ claims under SanitizeSpec
\* C18: for a text without any quote character (so without nested quote layers),
\* and any speaker name, a second pass of the sanitizer returns what the first pass
\* returned, for sanitize and for sanitizeGroupContent.
C18_Idempotent ==
  (Len(cleaning.passes) = 3 /\ \A i \in 1..Len(cleaning.passes[1]) :
                                 cleaning.passes[1][i] \notin QuoteChars)
    => cleaning.passes[3] = cleaning.passes[2]

\* ------------------------------------------------------------ claims under TurnSpec
\* the reply loop L appended last to the transcript of its chat
LastReplyOf(L) ==
  LET msgs == groupMessages[loops[L].chatId]
      last == CHOOSE k \in 1..Len(msgs) :
                /\ msgs[k].id[1] = L
                /\ \A j \in (k + 1)..Len(msgs) : msgs[j].id[1] # L
  IN msgs[last]

\* C19: in a sequential run, the message of a request issued before the run has
\* appended a reply is the sanitized user message; the message of every later
\* request is the sanitized content of the reply the run appended last; and a step
\* that appends no reply (a skipped turn among them) leaves the message of the
\* next turn as it was.
C19_RespondsToLastReply ==
  [][\A L \in 1..Len(loops) :
       (L <= Len(loops') /\ ~loops[L].parallel) =>
         /\ loops'[L].nReq = loops[L].nReq + 1 =>
              loops'[L].message =
                IF loops[L].nMsgs = 0 THEN sanitize(loops[L].content)
                ELSE sanitize(LastReplyOf(L).content)
         /\ loops'[L].nMsgs = loops[L].nMsgs =>
              loops'[L].currentMessage = loops[L].currentMessage]_vars

\* a run whose reply with two leading tags was followed by a skipped turn has issued
\* the request after it, with a message that is neither the user message nor the
\* content stored for the reply
C19_Witness ==
  \E L \in 1..Len(loops) :
    /\ ~loops[L].parallel /\ loops[L].phase = "fetch"
    /\ loops[L].nMsgs >= 1 /\ loops[L].nReq >= loops[L].nMsgs + 2
    /\ LastReplyOf(L).content \in {sanitize(t) : t \in TaggedTexts}
    /\ loops[L].message # sanitize(loops[L].content)
    /\ loops[L].message # LastReplyOf(L).content

\* ------------------------------------------------------------ claims under Spec (2)
\* C20: a group send to the open group, when its autoReply is off or it has no
\* members, appends exactly the user's message to that group's transcript and
\* changes nothing else: no memory, no loop (so no request is issued and no running
\* loop is aborted), not the typing indicator, not the cancellation tokens.
C20_OnlyUserMessage ==
  [][\A g \in DOMAIN groups :
       (nSends'[g] = nSends[g] + 1 /\ (~groups[g].autoReply \/ groups[g].memberIds = <<>>)) =>
         /\ Len(groupMessages'[g]) = Len(groupMessages[g]) + 1
         /\ SubSeq(groupMessages'[g], 1, Len(groupMessages[g])) = groupMessages[g]
         /\ groupMessages'[g][Len(groupMessages'[g])].senderId = "user"
         /\ groupMessages'[g][Len(groupMessages'[g])].content \in UserTexts
         /\ \A h \in Groups \ {g} : groupMessages'[h] = groupMessages[h]
         /\ UNCHANGED <<characterMemories, loops, typingForId, groupLoopAbortRef,
                        characters, groups, selectedGroupId, characterMemorySize>>
         /\ UNCHANGED <<singleVars, streamVars, settingsVars, suggestVars, cleaning, unreadGroups, suggestionRequests>>]_vars

\* a loop of a group is still running, not cancelled, although the user has sent
\* another message to the group since it started: autoReply was off for that send
C20_Witness ==
  \E L \in 1..Len(loops) :
    LET g == loops[L].chatId
    IN /\ ~loops[L].aborted /\ ~loops[L].done
       /\ ~groups[g].autoReply
       /\ nSends[g] > loops[L].sendNo
       /\ groupLoopAbortRef[g] = L /\ typingForId = g
       /\ groupMessages[g][Len(groupMessages[g])].senderId = "user"

\* ------------------------------------------------------------ claims under Spec (3)
\* the member whose request loop L issues in this step
Requester(L) ==
  IF loops[L].parallel
  THEN loops[L].memberIds[CHOOSE i \in 1..Len(loops[L].task) :
                            loops[L].task[i] = "sleep" /\ loops'[L].task[i] = "fetch"]
  ELSE loops[L].memberIds[loops[L].r]

\* C21: the conversation_history of a member's group request is the last
\* apiContextSize entries of that member's memory for the group as the memory stands
\* when the request is issued.
C21_HistoryIsCurrentMemory ==
  [][\A L \in 1..Len(loops) :
       (L <= Len(loops') /\ loops'[L].nReq = loops[L].nReq + 1) =>
         conversationHistory(loops'[L], Requester(L)) =
           SliceLast(characterMemories[loops[L].chatId][Requester(L)],
                     settings["apiContextSize"])]_vars

\* ------------------------------------------------------------ claims under ParSpec (2)
\* C22: a step that appends a member's reply to the transcript of group g increases
\* g's unread counter by exactly 1 when g is not the open group, and leaves it
\* unchanged when g is the open group.
C22_UnreadBumped ==
  [][\A g \in Groups :
       (/\ Len(groupMessages'[g]) = Len(groupMessages[g]) + 1
        /\ groupMessages'[g][Len(groupMessages'[g])].senderId # "user") =>
         unreadGroups'[g] = IF selectedGroupId # g THEN unreadGroups[g] + 1
                            ELSE unreadGroups[g]]_vars

\* ------------------------------------------------------------ claims under TimerSpec
\* C23: after the reply of a single send has been appended, a suggestion request is
\* eventually issued for that chat whose recent messages include that reply; this
\* holds for the first exchange of an empty chat too.
C23_SuggestionsRequested ==
  \A S \in 1..MaxTimerSends :
    (S <= Len(sends) /\ sends[S].phase = "committed")
      ~> (\E i \in 1..Len(suggestionRequests) :
            /\ S <= Len(sends)
            /\ suggestionRequests[i].chatId = sends[S].chatId
            /\ \E j \in 1..Len(suggestionRequests[i].context) :
                 suggestionRequests[i].context[j].id = <<S, "a">>)

\* ------------------------------------------------------------ claims under ClearSpec
\* C24: a step that empties the transcript of group g (clearing its history) also
\* empties all of g's character memories, leaves the transcript and the memories of
\* every other group unchanged, and cancels no loop: the loops and the cancellation
\* slots stay as they are. A reply that a loop of g completes, before or after such a
\* step, is appended to g's transcript and to the responder's memory for g.
C24_ClearLeavesLoopRunning ==
  [][/\ \A g \in Groups :
          (groupMessages[g] # <<>> /\ groupMessages'[g] = <<>>) =>
            /\ characterMemories'[g] = [c \in Chars |-> <<>>]
            /\ \A h \in Groups \ {g} :
                 /\ groupMessages'[h] = groupMessages[h]
                 /\ characterMemories'[h] = characterMemories[h]
            /\ UNCHANGED <<loops, groupLoopAbortRef, typingForId>>
     /\ \A L \in 1..Len(loops) :
          (L <= Len(loops') /\ loops'[L].nMsgs = loops[L].nMsgs + 1) =>
            LET g == loops[L].chatId
                reply == groupMessages'[g][Len(groupMessages'[g])]
                memory == characterMemories'[g][reply.senderId]
            IN /\ Len(groupMessages'[g]) = Len(groupMessages[g]) + 1
               /\ reply.id[1] = L
               /\ memory # <<>>
               /\ memory[Len(memory)] = [role |-> "assistant", content |-> reply.content]]_vars

\* the history of g1 was cleared while a loop of g1 was in flight, and that loop has
\* since appended a reply: the transcript of g1 starts with a member's reply, while
\* the other group still has its transcript and memories
C24_Witness ==
  /\ groupMessages["g1"] # <<>>
  /\ groupMessages["g1"][1].senderId # "user"
  /\ characterMemories["g1"][groupMessages["g1"][1].senderId] # <<>>
  /\ groupMessages["g2"] # <<>>
  /\ characterMemories["g2"]["B"] # <<>>

\* ------------------------------------------------------------ claims under DelaySpec
\* C25: the thinking delay of every single send is
\* clamp(300 + wordCount(message) * 120, 600, 3000) milliseconds, which is what
\* computeWaitMs returns, and while a send is in its delay it has not set the typing
\* indicator.
C25_DelayFormula ==
  \A S \in 1..Len(sends) :
    /\ sends[S].delay = computeWaitMs(sends[S].content)
    /\ (sends[S].phase = "sleep" /\ Len(sends) = 1) => typingForId = Null

\* ------------------------------------------------------------ claims under DecodeSpec
\* the tokens a read delivered to send S in this step
ChunkRead(S) == Take(sends[S].rest, Len(sends[S].rest) - Len(sends'[S].rest))

\* C26: a 'data: ' line that is not valid JSON contributes nothing and does not stop
\* the decoding: a read adds to the accumulated text the content of every line of
\* its chunk that parses, in order, whatever lines that do not parse stand before,
\* between or after them, and the send is not made a failure by it.
C26_MalformedLineSkipped ==
  [][\A S \in 1..Len(sends) :
       /\ (sends[S].phase = "read" /\ sends'[S].rest # sends[S].rest) =>
            sends'[S].full = sends[S].full \o ContentOfLines(split(ChunkRead(S)))
       /\ sends[S].phase = "read" => sends'[S].phase \in {"read", "committed"}]_vars

\* a committed send whose body held a malformed line between two content lines,
\* both of which are in the message
C26_Witness ==
  \E S \in 1..Len(sends) :
    /\ sends[S].phase = "committed"
    /\ sends[S].body = ContentLine(<<"a">>) \o <<"nl">> \o MalformedLine \o <<"nl">>
                         \o ContentLine(<<"h">>) \o <<"nl">>
    /\ sends[S].full = <<"a", "h">>
    /\ messages[sends[S].chatId][Len(messages[sends[S].chatId])].content = <<"a", "h">>

\* ------------------------------------------------------------ claims under DanglingSpec
\* the members of loop l that match a character, by position
Present(l) == {i \in 1..Len(l.memberIds) : l.memberIds[i] \in l.chars}

\* an entry of a memory that records something id said: its own "assistant" entry,
\* or the "user" entry "name: text" the others get
SaidBy(id, owner, entry) ==
  \/ owner = id /\ entry.role = "assistant"
  \/ /\ Len(entry.content) >= Len(CharName[id]) + 2
     /\ SubSeq(entry.content, 1, Len(CharName[id]) + 2) = CharName[id] \o <<":", " ">>

\* C27: a member id that matches no character gets no request, no GroupMessage and
\* no memory entry of something it said, in parallel and in sequential mode, and the
\* other members are served all the same: a loop that was not cancelled ends having
\* issued one request per member that exists (parallel), eight per such member
\* (sequential), each answered by a reply.
C27_DanglingMemberSkipped ==
  \A L \in 1..Len(loops) :
    LET l == loops[L]
        t == groupMessages[l.chatId]
        expected == IF l.parallel THEN Cardinality(Present(l))
                    ELSE iterations * Cardinality(Present(l))
    IN /\ \A i \in (1..Len(l.memberIds)) \ Present(l) :
            LET id == l.memberIds[i]
            IN /\ l.parallel => l.task[i] = "returned"
               /\ ~l.parallel => ~(l.phase \in {"sleep", "fetch"} /\ l.r = i)
               /\ \A p \in 1..Len(t) : t[p].senderId # id
               /\ \A c \in Chars :
                    \A p \in 1..Len(characterMemories[l.chatId][c]) :
                      ~SaidBy(id, c, characterMemories[l.chatId][c][p])
       /\ l.nReq <= expected
       /\ (l.done /\ ~l.aborted) => l.nReq = expected /\ l.nMsgs = expected

\* a sequential loop over [A, B] with A deleted ran to its end: B replied in all
\* eight rounds
C27_Witness ==
  \E L \in 1..Len(loops) :
    /\ ~loops[L].parallel /\ loops[L].done /\ Present(loops[L]) = {2}
    /\ loops[L].nReq = iterations
    /\ Cardinality(From(groupMessages["g1"], "B")) = iterations

\* ------------------------------------------------------------ typing indicator
\* C28: while a group loop has set the typing indicator and has not finished, and
\* while a single send is between setting the indicator and its end, typingForId is
\* not null: no other send's completion clears it.
C28_TypingWhileRunning ==
  /\ \A L \in 1..Len(loops) : Running(L) => typingForId # Null
  /\ \A S \in 1..Len(sends) : sends[S].phase \in {"fetch", "read"} => typingForId # Null

\* ------------------------------------------------------------ empty replies
\* C29: no assistant message of a 1:1 transcript, no character message of a group
\* transcript and no "assistant" entry of a memory has empty content.
C29_NoEmptyReply ==
  /\ \A c \in Chars : \A p \in 1..Len(messages[c]) :
       messages[c][p].role = "assistant" => messages[c][p].content # <<>>
  /\ \A g \in Groups : \A p \in 1..Len(groupMessages[g]) :
       groupMessages[g][p].senderId # "user" => groupMessages[g][p].content # <<>>
  /\ \A g \in Groups, c \in Chars : \A p \in 1..Len(characterMemories[g][c]) :
       characterMemories[g][c][p].role = "assistant" =>
         characterMemories[g][c][p].content # <<>>

\* ------------------------------------------------------------ cancellation slot
\* the loop started last for group g
LatestLoop(g) == CHOOSE L \in LoopsOf(g) : \A M \in LoopsOf(g) : M <= L

\* C30: the slot of a group holds null (0) or the controller of the loop started
\* last for the group: it holds that controller for as long as the loop runs,
\* whichever older loops finish meanwhile, and null once the loop has finished.
C30_SlotIsLatestLoop ==
  \A g \in Groups :
    IF LoopsOf(g) = {} THEN groupLoopAbortRef[g] = 0
    ELSE IF Running(LatestLoop(g)) THEN groupLoopAbortRef[g] = LatestLoop(g)
    ELSE groupLoopAbortRef[g] = 0

\* a cancelled loop has finished after its successor started; the successor is
\* still running and the slot holds its controller
C30_Witness ==
  \E L, M \in 1..Len(loops) :
    /\ L < M /\ loops[L].chatId = loops[M].chatId /\ M = LatestLoop(loops[M].chatId)
    /\ loops[L].aborted /\ loops[L].done
    /\ Running(M) /\ groupLoopAbortRef[loops[M].chatId] = M

====
